---- MODULE Spec2Model ----
(***************************************************************************)
(* Real-time voice command session of RS_Segmentation.                     *)
(*                                                                         *)
(*   useRealtimeSession (hooks/useRealtimeSession.ts, src/unnamed/part_004)*)
(*     status/error state, pcRef, dcRef, micStreamRef, sendEvent,          *)
(*     disconnect, connect, dc.onopen / dc.onmessage / dc.onclose          *)
(*   VoiceControl (components/VoiceControl.tsx)                            *)
(*     isActive, handleToggle, handleEvent (response.done dispatch loop)   *)
(*   useVoiceTools (hooks/useVoiceTools.ts, src/unnamed/part_003)          *)
(*     handleToolCall                                                      *)
(*                                                                         *)
(* JavaScript runs one task to completion; an async function gives up      *)
(* control only at an await.  Every action below is one such run: from a   *)
(* callback entry or an await resumption to the next await or the return.  *)
(* An await on an already settled promise resumes in a microtask, before   *)
(* any other task (click, channel event, network completion) can run.      *)
(*                                                                         *)
(* Resources are named by the connect() invocation that created them:      *)
(* mic[c], pcs[c] and dcs[c] are the MediaStream, the RTCPeerConnection    *)
(* and the RTCDataChannel of invocation c, and a ref holds c or NULL.      *)
(* audioRef (the playback element) owns nothing that is released and is    *)
(* left out.                                                               *)
(***************************************************************************)
EXTENDS Integers, Sequences, FiniteSets, TLC

\* ---------------------------------------------------------------- bounds
MaxConnects == 2      \* connect() invocations in one run
MaxSessions == 1      \* connect() invocations in a run that also dispatches events
MaxEvents   == 2      \* response.done events delivered in one run
MaxItems    == 2      \* items in response.output of one event
MaxMessages == 3      \* inbound messages other than response.done in one run
MaxToolEvents == 1    \* response.done events in a run that also delivers other messages
MaxWaits    == 2      \* calls of waitForStableMap, and of waitForMoveEnd, in one run
MaxNotifications == 3 \* moveend and idle notifications the map delivers in one run
MaxCalls    == 2      \* tool invocations of one response.done event
MaxInvocations == 3   \* tool invocations in one run
MaxMapZoom  == 22     \* zoom levels the map can be at: 0..MaxMapZoom
MaxSteps    == 3      \* steps arguments of zoom_map: -MaxSteps..MaxSteps
MaxLevel    == 25     \* level arguments of zoom_map: 0..MaxLevel
MaxObjects  == 2      \* detected objects in the collection
MaxFeatures == 2      \* features one segmentation returns
MaxViews    == 3      \* distinct views the camera shows in one run
MaxClicks   == 2      \* point clicks in add-object mode in one run
MaxPanelRuns == 2     \* runs of the panel's text segmentation in one run

ConnIds == 1..MaxConnects
SessIds == 1..MaxSessions
EvIds   == 1..MaxEvents
ToolEvIds == 1..MaxToolEvents
WaitIds == 1..MaxWaits
ClickIds == 1..MaxClicks
NULL    == 0          \* a ref holding null

\* ------------------------------------------------------------ data types
\* ResponseOutputItem: type, name?, call_id?, arguments?.  The argument
\* string is kept by what JSON.parse does with it: "" is the empty string
\* (falsy), "bad" is text that JSON.parse rejects, "json" is a JSON object.
FC(n, c, a) == [type |-> "function_call", name |-> n, call_id |-> c, arguments |-> a]
ResponseOutputItem ==
  { FC("locate_place", TRUE, "json"),   \* handler suspends on collaborators
    FC("zoom_map", TRUE, "json"),       \* handler returns without suspending
    FC("no_such_tool", TRUE, "json"),   \* default arm of handleToolCall
    FC("zoom_map", TRUE, "bad"),        \* arguments that are not JSON
    FC("export_data", TRUE, ""),        \* empty arguments payload
    FC("zoom_map", FALSE, "json"),      \* no call_id
    [type |-> "message", name |-> "", call_id |-> FALSE, arguments |-> ""] }

Outputs == UNION { [1..n -> ResponseOutputItem] : n \in 1..MaxItems }

VoiceStatus == {"disconnected", "connecting", "connected", "error"}

\* A message on the data channel, as dc.onmessage sees it: json says whether
\* JSON.parse(event.data) returns, type and transcript are the fields of the
\* parsed RealtimeEvent that handleEvent reads.
Raw(j, t, x) == [json |-> j, type |-> t, transcript |-> x]
InputTranscribed  == "conversation.item.input_audio_transcription.completed"
OutputTranscribed == "response.audio_transcript.done"
TranscriptionFailed == "conversation.item.input_audio_transcription.failed"
ResponseDone == Raw(TRUE, "response.done", "")
NoMessage    == Raw(TRUE, "", "")
\* transcript strings: absent or empty, blank, plain, padded with blanks
Texts == {"", " ", "hi", " hi "}
RawMessages ==
  { Raw(FALSE, "", "") }
    \cup { Raw(TRUE, t, x) : t \in {InputTranscribed, OutputTranscribed}, x \in Texts }
    \cup { Raw(TRUE, TranscriptionFailed, ""), Raw(TRUE, "error", "") }
    \cup { Raw(TRUE, "session.created", ""), Raw(TRUE, "response.audio_transcript.delta", "hi") }

\* The case labels of the switch in handleEvent.
RecognizedTypes ==
  {InputTranscribed, OutputTranscribed, "response.done", TranscriptionFailed, "error"}

\* ------------------------------------------------------- tool calls
\* An optional numeric argument of a tool call.
Arg(p, v) == [present |-> p, value |-> v]
NoArg == Arg(FALSE, 0)

\* handleToolCall(name, args): arg says whether the string argument of the
\* tool (place_name, object_type) is there; action, level and steps are the
\* arguments of zoom_map.
Call(n, a, act, l, st) ==
  [name |-> n, arg |-> a, action |-> act, level |-> l, steps |-> st, object_type |-> ""]
NoCall == Call("", FALSE, "", NoArg, NoArg)

StartZoom    == 16    \* MapView.tsx:95   initialViewState.zoom
FlyZoom      == 14    \* part_003:248     flyTo({ zoom: 14 })
MinLevel     == 1     \* part_003:305, 311
TopLevel     == 20    \* part_003:300, 311
DefaultSteps == 2     \* part_003:296

Min(a, b) == IF a <= b THEN a ELSE b
Max(a, b) == IF a >= b THEN a ELSE b

\* voiceConfig.ts:31-55   OBJECT_TYPE_MAP, its Chinese keys written in
\* pinyin
OBJECT_TYPE_MAP ==
  [k \in {"tiankuai", "nongtian", "nongdi", "gengdi", "daolu", "lu", "gonglu",
          "fangwu", "jianzhu", "jianzhuwu", "loufang", "fangzi", "shumu", "shu",
          "lindi", "shuiti", "shuimian", "heliu", "he", "hedao", "zuowu",
          "zhuangjia", "wuding"} |->
     CASE k = "tiankuai" -> "fields"
       [] k \in {"nongtian", "nongdi", "gengdi"} -> "farmland"
       [] k \in {"daolu", "lu", "gonglu"} -> "roads"
       [] k \in {"fangwu", "jianzhu", "jianzhuwu", "loufang", "fangzi"} -> "buildings"
       [] k \in {"shumu", "shu", "lindi"} -> "trees"
       [] k \in {"shuiti", "shuimian"} -> "water bodies"
       [] k \in {"heliu", "he", "hedao"} -> "river"
       [] k \in {"zuowu", "zhuangjia"} -> "crops"
       [] k = "wuding" -> "rooftop"]

\* What an object literal inherits from Object.prototype, as far as it is
\* used here: the values are functions and objects, not strings.
ObjectPrototype ==
  [k \in {"constructor", "toString", "__proto__"} |->
     CASE k = "constructor" -> "[function Object]"
       [] k = "toString" -> "[function toString]"
       [] k = "__proto__" -> "[object Object.prototype]"]

\* OBJECT_TYPE_MAP[name]: an own property, an inherited one, or undefined.
PropertyRead(name) ==
  IF name \in DOMAIN OBJECT_TYPE_MAP THEN OBJECT_TYPE_MAP[name]
  ELSE IF name \in DOMAIN ObjectPrototype THEN ObjectPrototype[name]
  ELSE "undefined"

\* part_003:268   OBJECT_TYPE_MAP[objectType] || objectType
englishPrompt(objectType) ==
  LET v == PropertyRead(objectType)
  IN IF v = "undefined" THEN objectType ELSE v

\* The object_type arguments extract_objects is exercised with: a key of
\* the table for each of its values, words that are not keys, names every
\* object inherits, and the empty string.
ObjectTypes ==
  {"tiankuai", "gengdi", "lu", "jianzhu", "shu", "shuiti", "he", "zuowu", "wuding"}
    \cup {"buildings", "hupo"} \cup DOMAIN ObjectPrototype \cup {""}

\* extract_objects with object_type t.
ExtractCall(t) ==
  [Call("extract_objects", t # "", "", NoArg, NoArg) EXCEPT !.object_type = t]

\* The zoom_map calls with every action, level and steps argument.
ZoomCalls ==
  { Call("zoom_map", FALSE, act, NoArg, st) :
      act \in {"zoom_in", "zoom_out"},
      st \in {NoArg} \cup { Arg(TRUE, v) : v \in -MaxSteps..MaxSteps } }
    \cup { Call("zoom_map", FALSE, "zoom_to", l, NoArg) :
             l \in {NoArg} \cup { Arg(TRUE, v) : v \in 0..MaxLevel } }
    \cup { Call("zoom_map", FALSE, "zoom_max", NoArg, NoArg) }

\* The calls the other tools are exercised with: each with and without its
\* argument, zoom_map with a call that moves the camera and one that is
\* refused.
LocateCalls == { Call("locate_place", a, "", NoArg, NoArg) : a \in BOOLEAN }
ExtractCalls == { ExtractCall(t) : t \in {"", "jianzhu"} }
ExportCalls == { Call("export_data", FALSE, "", NoArg, NoArg) }
SomeZoomCalls ==
  { Call("zoom_map", FALSE, "zoom_in", NoArg, NoArg),
    Call("zoom_map", FALSE, "zoom_to", Arg(TRUE, MaxLevel), NoArg) }

\* The function calls of one response.done event, taken from cs.
CallSeqs(cs) == UNION { [1..n -> cs] : n \in 1..MaxCalls }

\* A handleAddObjectClick that has not been called; the handleSegment of
\* the panel when it is not running (n counts its runs, added is what the
\* last run passed to onObjectsDetected).
NoClick == [pc |-> "idle", w |-> NULL]
NoPanel == [pc |-> "none", n |-> 0, added |-> 0]

\* No handleToolCall is running and none is waiting to start.
ToolIdle ==
  [pc |-> "idle", queue |-> <<>>, w |-> NULL, image |-> 0, bounds |-> 0, ease |-> "none",
   prompt |-> ""]

\* What a returned handleToolCall is remembered by: its call, the result
\* string (its kind and the number it carries), what it asked of the camera
\* (request) at which zoom (from), what it saw and did to the collection
\* (tracked, detected, added, exported), what the segmentation returned
\* (features), and the views its image and its bounds were taken from.
NoReturn ==
  [n |-> 0, call |-> NoCall, result |-> "", count |-> 0, request |-> NoArg,
   from |-> 0, tracked |-> 0, detected |-> 0, added |-> 0, exported |-> 0,
   features |-> NoArg, image |-> 0, bounds |-> 0, ease |-> "none", prompt |-> ""]

VARIABLES
  \* useRealtimeSession
  status,      \* state.status
  error,       \* state.error ("none" is null)
  pcRef,       \* pcRef.current: the connect() whose RTCPeerConnection it holds
  dcRef,       \* dcRef.current
  micStreamRef,\* micStreamRef.current
  mic,         \* mic[c]: the MediaStream connect() c acquired: none/live/stopped
  pcs,         \* pcs[c]: the RTCPeerConnection of connect() c: none/open/closed
  dcs,         \* dcs[c]: readyState of the data channel of connect() c
  cpc,         \* cpc[c]: the await connect() c is suspended at
  out,         \* out[c]: the messages dc.send transmitted on channel c
  \* VoiceControl
  isActive,    \* isActive
  evItems,     \* evItems[h]: response.output of the h-th response.done event
  evChan,      \* evChan[h]: the channel whose onmessage delivered event h
  hpc,         \* hpc[h]: where handleEvent h is
  hidx,        \* hidx[h]: the item the for loop of handleEvent h is at
  started,     \* started[h]: items whose handleToolCall has been entered
  returned,    \* returned[h]: items whose handleToolCall promise has settled
  sends,       \* sends[h][i]: sendEventRef.current calls made for item i
  transcripts, \* transcripts: the TranscriptEntry list
  \* the inbound side of the data channels
  lastIn,      \* the message the latest onmessage call was given
  nIn,         \* onmessage calls so far (the clock Date.now() reads)
  lastChan,    \* the channel whose onmessage was called last
  parseErrors, \* 'Failed to parse data channel message' reports so far
  interrupted, \* the connect() invocations disconnect() was called during
  \* the map view and the waits on it (useVoiceTools)
  map,         \* isMoving(), loaded(), notifications delivered, the last one
  listeners,   \* map.on / map.off registry: listeners of moveend and of idle
  stableWait,  \* stableWait[w]: the w-th waitForStableMap call
  moveWait,    \* moveWait[w]: the w-th waitForMoveEnd call
  \* the tools (useVoiceTools) and what they act on
  camera,      \* zoom, the camera transition in progress, its target, the view
  objects,     \* detectedObjects (state) and detectedObjectsRef.current (ref)
  tool,        \* the handleToolCall in progress and the calls still to come
  ret,         \* the handleToolCall that returned last: its call and effects
  \* App, MapView and ControlPanel
  loadingState,\* loadingState of App: textSegmentation, addObjectRequests
  clicks,      \* clicks[k]: the k-th handleAddObjectClick
  panel,       \* handleSegment of the control panel
  notes        \* onTextSegmentationStart / Complete calls of extract_objects

handlerVars == <<evItems, evChan, hpc, hidx, started, returned, sends>>
hookVars == <<status, error, pcRef, dcRef, micStreamRef, mic, pcs, dcs, cpc>>
inboundVars == <<transcripts, lastIn, nIn, lastChan, parseErrors>>
mapVars == <<map, listeners, stableWait, moveWait>>
toolVars == <<camera, objects, tool, ret>>
appVars == <<loadingState, clicks, panel, notes>>
vars == <<status, error, pcRef, dcRef, micStreamRef, mic, pcs, dcs, cpc, out,
          isActive, evItems, evChan, hpc, hidx, started, returned, sends,
          transcripts, lastIn, nIn, lastChan, parseErrors, interrupted,
          map, listeners, stableWait, moveWait,
          camera, objects, tool, ret,
          loadingState, clicks, panel, notes>>

CameraAt(z) == [zoom |-> z, ease |-> "none", target |-> z, view |-> 1]

InitButCamera ==
  /\ status = "disconnected"
  /\ error = "none"
  /\ pcRef = NULL
  /\ dcRef = NULL
  /\ micStreamRef = NULL
  /\ mic = [c \in ConnIds |-> "none"]
  /\ pcs = [c \in ConnIds |-> "none"]
  /\ dcs = [c \in ConnIds |-> "none"]
  /\ cpc = [c \in ConnIds |-> "idle"]
  /\ out = [c \in ConnIds |-> <<>>]
  /\ isActive = FALSE
  /\ evItems = [h \in EvIds |-> <<>>]
  /\ evChan = [h \in EvIds |-> NULL]
  /\ hpc = [h \in EvIds |-> "idle"]
  /\ hidx = [h \in EvIds |-> 0]
  /\ started = [h \in EvIds |-> {}]
  /\ returned = [h \in EvIds |-> {}]
  /\ sends = [h \in EvIds |-> [i \in 1..MaxItems |-> 0]]
  /\ transcripts = <<>>
  /\ lastIn = NoMessage
  /\ nIn = 0
  /\ lastChan = NULL
  /\ parseErrors = 0
  /\ interrupted = {}
  /\ map = [moving |-> FALSE, loaded |-> FALSE, events |-> 0, last |-> "none"]
  /\ listeners = [moveend |-> {}, idle |-> {}]
  /\ stableWait = [w \in WaitIds |-> [state |-> "none", done |-> FALSE, resolves |-> 0]]
  /\ moveWait = [w \in WaitIds |->
                   [state |-> "none", done |-> FALSE, resolves |-> 0, timer |-> "none"]]
  /\ objects = [state |-> 0, ref |-> 0]
  /\ tool = ToolIdle
  /\ ret = NoReturn
  /\ loadingState = [textSegmentation |-> FALSE, addObjectRequests |-> {}]
  /\ clicks = [k \in ClickIds |-> NoClick]
  /\ panel = NoPanel
  /\ notes = [starts |-> 0, completes |-> 0]

Init == InitButCamera /\ camera = CameraAt(StartZoom)

\* The map at any zoom level it can be at.
InitZoom == InitButCamera /\ camera \in { CameraAt(z) : z \in 0..MaxMapZoom }

\* No handleEvent continuation is waiting in the microtask queue: only then
\* can the event loop start another task.
MicrotasksEmpty == \A h \in EvIds : hpc[h] # "micro"

\* ------------------------------------------------ useRealtimeSession hook
\* The refs and resources of the hook as one value, so that disconnect() and
\* the catch block of connect() are functions of it.
Hook == [status |-> status, error |-> error, pcRef |-> pcRef, dcRef |-> dcRef,
         micStreamRef |-> micStreamRef, mic |-> mic, pcs |-> pcs, dcs |-> dcs]

\* readyState of a data channel once it is asked to close (dc.close(), or
\* pc.close() of its peer connection): its close event is still to come.
Closing(rs) == IF rs \in {"connecting", "open"} THEN "closing" ELSE rs

\* part_004:39-42   if (dcRef.current) { dcRef.current.close(); dcRef.current = null }
CloseDataChannel(s) ==
  IF s.dcRef # NULL
    THEN [s EXCEPT !.dcs[s.dcRef] = Closing(@), !.dcRef = NULL]
    ELSE s

\* The stop without the reset micStreamRef.current = null (a variant the
\* idempotence of disconnect() is checked against).
StopMicrophoneNoReset(s) ==
  IF s.micStreamRef # NULL
    THEN [s EXCEPT !.mic[s.micStreamRef] = "stopped"]
    ELSE s

\* part_004:45-48 and 233-236   stop the tracks of micStreamRef.current
StopMicrophone(s) ==
  IF s.micStreamRef # NULL
    THEN [s EXCEPT !.mic[s.micStreamRef] = "stopped", !.micStreamRef = NULL]
    ELSE s

\* part_004:51-54 and 237-240   pcRef.current.close(); closing a peer
\* connection closes the data channel it created
ClosePeerConnection(s) ==
  IF s.pcRef # NULL
    THEN [s EXCEPT !.pcs[s.pcRef] = "closed", !.dcs[s.pcRef] = Closing(@), !.pcRef = NULL]
    ELSE s

\* disconnect(): data channel, microphone, peer connection, then setState
disconnect(s) ==
  [ClosePeerConnection(StopMicrophone(CloseDataChannel(s)))
     EXCEPT !.status = "disconnected", !.error = "none"]

disconnectStepsPeerFirst(s) ==
  LET a == ClosePeerConnection(s)
      b == CloseDataChannel(a)
      c == StopMicrophone(b)
  IN <<s, a, b, c, [c EXCEPT !.status = "disconnected", !.error = "none"]>>

\* part_004:37-62   the hook state before disconnect(), after each of its
\* three if statements, and after its setState
disconnectSteps(s) ==
  LET a == CloseDataChannel(s)
      b == StopMicrophone(a)
      c == ClosePeerConnection(b)
  IN <<s, a, b, c, [c EXCEPT !.status = "disconnected", !.error = "none"]>>

\* The release calls one disconnect() makes in hook state s: the guards of
\* its three if statements.
Releases(s) ==
  (IF s.dcRef # NULL THEN {<<"dc.close", s.dcRef>>} ELSE {})
    \cup (IF s.micStreamRef # NULL THEN {<<"track.stop", s.micStreamRef>>} ELSE {})
    \cup (IF s.pcRef # NULL THEN {<<"pc.close", s.pcRef>>} ELSE {})

\* catch block of connect(): stops micStreamRef.current, closes pcRef.current,
\* drops dcRef.current without closing it, then setState error
connectCatch(s, msg) ==
  [[ClosePeerConnection(StopMicrophone(s)) EXCEPT !.dcRef = NULL]
     EXCEPT !.status = "error", !.error = msg]

SetHook(s) ==
  /\ status' = s.status
  /\ error' = s.error
  /\ pcRef' = s.pcRef
  /\ dcRef' = s.dcRef
  /\ micStreamRef' = s.micStreamRef
  /\ mic' = s.mic
  /\ pcs' = s.pcs
  /\ dcs' = s.dcs

sendEventAnyState(o, event) ==
  IF dcRef # NULL
    THEN [o EXCEPT ![dcRef] = Append(@, event)]
    ELSE o

\* sendEvent(event): dc.send only when dcRef.current exists and is open
sendEvent(o, event) ==
  IF dcRef # NULL /\ dcs[dcRef] = "open"
    THEN [o EXCEPT ![dcRef] = Append(@, event)]
    ELSE o

\* Only the first of the sends takes effect (a variant the pairing of the
\* two sends of a reply is checked against).
SendAllCutShort(o, events) ==
  IF events = <<>> THEN o ELSE sendEvent(o, Head(events))

RECURSIVE SendAll(_, _)
SendAll(o, events) ==
  IF events = <<>> THEN o
  ELSE SendAll(sendEvent(o, Head(events)), Tail(events))

\* -------------------------------------------------- VoiceControl dispatch
\* VoiceControl.tsx:89   the guard of the for loop body
Dispatchable(item) ==
  /\ item.type = "function_call"
  /\ item.name # ""
  /\ item.call_id
  /\ item.arguments # ""

\* JSON.parse(item.arguments) returns (does not throw)
JsonParses(a) == a = "json"

\* handleToolCall(name, args) reaches an await on a collaborator (geocoding,
\* the map, the segmentation backend); the other arms return a string
\* without suspending.
Suspends(name) == name \in {"locate_place", "extract_objects"}

\* The two sends in the other order (a variant the order of the reply is
\* checked against).
ReplySwapped(h, i, kind) ==
  << [type |-> "response.create", call |-> <<h, i>>, output |-> "none"],
     [type |-> "conversation.item.create", call |-> <<h, i>>, output |-> kind] >>

\* The two sends of one reply: the function_call_output item, then the turn
\* trigger.  call names the invocation: <<event, index in output>>.
Reply(h, i, kind) ==
  << [type |-> "conversation.item.create", call |-> <<h, i>>, output |-> kind],
     [type |-> "response.create", call |-> <<h, i>>, output |-> "none"] >>

\* The loop without the await: every handleToolCall is entered in the same
\* run (a variant the sequential dispatch is checked against).
RECURSIVE ForLoopNoAwait(_, _, _, _)
ForLoopNoAwait(h, items, i, r) ==
  IF i > Len(items) THEN r
  ELSE IF ~Dispatchable(items[i]) THEN ForLoopNoAwait(h, items, i + 1, r)
  ELSE IF ~JsonParses(items[i].arguments)
    THEN ForLoopNoAwait(h, items, i + 1,
           [r EXCEPT !.msgs = @ \o Reply(h, i, "error"), !.sends[i] = 2])
  ELSE ForLoopNoAwait(h, items, i + 1,
         [r EXCEPT !.pc = IF r.pc = "done"
                            THEN (IF Suspends(items[i].name) THEN "await" ELSE "micro")
                            ELSE r.pc,
                   !.idx = IF r.pc = "done" THEN i ELSE r.idx,
                   !.started = @ \cup {i}])

\* The synchronous run of the for loop from item i: it ends at the first
\* await handleToolCall(...) or at the end of the array.  r collects what
\* the run did: pc, idx, the messages passed to send, started, returned, sends.
RECURSIVE ForLoop(_, _, _, _)
ForLoop(h, items, i, r) ==
  IF i > Len(items) THEN [r EXCEPT !.pc = "done", !.idx = i]
  ELSE IF ~Dispatchable(items[i]) THEN ForLoop(h, items, i + 1, r)
  ELSE IF ~JsonParses(items[i].arguments)
    THEN ForLoop(h, items, i + 1,
           [r EXCEPT !.msgs = @ \o Reply(h, i, "error"), !.sends[i] = 2])
  ELSE [r EXCEPT !.pc = IF Suspends(items[i].name) THEN "await" ELSE "micro",
                 !.idx = i,
                 !.started = @ \cup {i},
                 !.returned = IF Suspends(items[i].name) THEN @ ELSE @ \cup {i}]

HandlerRec(h) ==
  [pc |-> "done", idx |-> hidx[h], msgs |-> <<>>, started |-> started[h],
   returned |-> returned[h], sends |-> sends[h]]

SetHandler(h, r) ==
  /\ hpc' = [hpc EXCEPT ![h] = r.pc]
  /\ hidx' = [hidx EXCEPT ![h] = r.idx]
  /\ started' = [started EXCEPT ![h] = r.started]
  /\ returned' = [returned EXCEPT ![h] = r.returned]
  /\ sends' = [sends EXCEPT ![h] = r.sends]
  /\ out' = SendAll(out, r.msgs)

\* ------------------------------------------------ inbound messages
\* String.prototype.trim on the transcript strings
TrimText(x) == CASE x = " hi " -> "hi" [] x = " " -> "" [] OTHER -> x

\* VoiceControl.tsx:60  { role, text: transcript.trim(), timestamp: Date.now() }
TranscriptEntry(role, x, now) == [role |-> role, text |-> TrimText(x), timestamp |-> now]

PrependEntry(prev, e) == <<e>> \o prev

\* VoiceControl.tsx:60  setTranscripts(prev => [...prev, entry])
AppendEntry(prev, e) == Append(prev, e)

handleEventDefaultArm(ts, ev, now) ==
  CASE ev.type = InputTranscribed /\ TrimText(ev.transcript) # "" ->
         AppendEntry(ts, TranscriptEntry("user", ev.transcript, now))
    [] ev.type # InputTranscribed /\ TrimText(ev.transcript) # "" ->
         AppendEntry(ts, TranscriptEntry("assistant", ev.transcript, now))
    [] OTHER -> ts

\* handleEvent on an event other than response.done: the two transcription
\* cases append, the failed and error cases log, no other type has a case.
handleEvent(ts, ev, now) ==
  CASE ev.type = InputTranscribed ->
         IF TrimText(ev.transcript) # ""
           THEN AppendEntry(ts, TranscriptEntry("user", ev.transcript, now))
           ELSE ts
    [] ev.type = OutputTranscribed ->
         IF TrimText(ev.transcript) # ""
           THEN AppendEntry(ts, TranscriptEntry("assistant", ev.transcript, now))
           ELSE ts
    [] OTHER -> ts

onmessageFatal(s, raw, now) ==
  IF raw.json
    THEN [s EXCEPT !.transcripts = handleEvent(@, raw, now)]
    ELSE [s EXCEPT !.status = "error", !.error = "parse"]

\* dc.onmessage: try { onEvent(JSON.parse(event.data)) } catch { console.error }
\* s holds what the callback could reach: the transcript, the status and the
\* error of the hook, and the count of reported parse failures.
onmessage(s, raw, now) ==
  IF raw.json
    THEN [s EXCEPT !.transcripts = handleEvent(@, raw, now)]
    ELSE [s EXCEPT !.parseErrors = @ + 1]

\* ------------------------------------------------ waiting on the map view
\* The listener a wait registers: its closure tryResolve or finish.
TryResolveOf(w) == <<"tryResolve", w>>
FinishOf(w) == <<"finish", w>>

NotMovingNow(m) == ~m.moving

\* part_003:46, 54   !map.isMoving() && map.loaded()
StableNow(m) == ~m.moving /\ m.loaded

OnMoveEndOnly(l, id) == [l EXCEPT !.moveend = @ \cup {id}]

\* part_003:62-63   map.on('moveend', tryResolve); map.on('idle', tryResolve)
OnBoth(l, id) == [moveend |-> l.moveend \cup {id}, idle |-> l.idle \cup {id}]

OffMoveEndOnly(l, id) == [l EXCEPT !.moveend = @ \ {id}]

\* part_003:56-57   map.off('moveend', tryResolve); map.off('idle', tryResolve)
OffBoth(l, id) == [moveend |-> l.moveend \ {id}, idle |-> l.idle \ {id}]

\* part_003:74   map.off('moveend', finish)
OffMoveEnd(l, id) == [l EXCEPT !.moveend = @ \ {id}]

\* part_003:52-60   tryResolve, on the record of its wait
tryResolve(sw, m) ==
  IF sw.done THEN sw
  ELSE IF StableNow(m)
    THEN [sw EXCEPT !.done = TRUE, !.state = "resolved", !.resolves = @ + 1]
    ELSE sw

finishUnguarded(mw) ==
  [mw EXCEPT !.done = TRUE, !.state = "resolved", !.resolves = @ + 1]

\* part_003:71-76   finish, on the record of its wait
finish(mw) ==
  IF mw.done THEN mw
  ELSE [mw EXCEPT !.done = TRUE, !.state = "resolved", !.resolves = @ + 1]

\* The registry after the listeners in ids have run: those whose wait they
\* resolved have unsubscribed themselves.
RECURSIVE OffResolved(_, _, _, _)
OffResolved(l, ids, sw, mw) ==
  IF ids = {} THEN l
  ELSE LET id == CHOOSE x \in ids : TRUE
           l1 == IF id[1] = "tryResolve"
                   THEN (IF sw[id[2]].done THEN OffBoth(l, id) ELSE l)
                   ELSE OffMoveEnd(l, id)
       IN OffResolved(l1, ids \ {id}, sw, mw)

\* The connect() invocations that are suspended at an await.
Suspended == { c \in ConnIds : cpc[c] \in {"token", "mic", "local", "sdp", "remote"} }

\* VoiceControl.tsx:157   setTranscripts([])
ClearTranscripts(ts) == <<>>

\* ------------------------------------------------------------- actions
\* handleToggle, isActive branch: disconnect(); setIsActive(false)
ToggleOff ==
  /\ MicrotasksEmpty
  /\ isActive
  /\ SetHook(disconnect(Hook))
  /\ isActive' = FALSE
  /\ interrupted' = interrupted \cup Suspended
  /\ UNCHANGED <<cpc, out>>
  /\ UNCHANGED <<handlerVars, inboundVars, mapVars, toolVars>>
  /\ UNCHANGED appVars

\* handleToggle, else branch: setTranscripts([]); connect() runs up to its
\* first await (the token fetch).  c is the next connect() invocation.
ToggleOn(c) ==
  /\ MicrotasksEmpty
  /\ ~isActive
  /\ cpc[c] = "idle"
  /\ \A b \in ConnIds : b < c => cpc[b] # "idle"
  /\ status' = "connecting"
  /\ error' = "none"
  /\ cpc' = [cpc EXCEPT ![c] = "token"]
  /\ transcripts' = ClearTranscripts(transcripts)
  /\ UNCHANGED <<pcRef, dcRef, micStreamRef, mic, pcs, dcs, out, isActive>>
  /\ UNCHANGED <<handlerVars, lastIn, nIn, lastChan, parseErrors, interrupted, mapVars, toolVars>>
  /\ UNCHANGED appVars

\* connect() c resumes from the await it is suspended at and the awaited
\* operation succeeded.
ConnectResume(c) ==
  /\ MicrotasksEmpty
  /\ \/ /\ cpc[c] = "token"                       \* part_004:69-78
        /\ cpc' = [cpc EXCEPT ![c] = "mic"]
        /\ UNCHANGED <<status, error, pcRef, dcRef, micStreamRef, mic, pcs, dcs, isActive>>
     \/ /\ cpc[c] = "mic"                         \* part_004:84-199
        /\ micStreamRef' = c
        /\ mic' = [mic EXCEPT ![c] = "live"]
        /\ pcRef' = c
        /\ pcs' = [pcs EXCEPT ![c] = "open"]
        /\ dcRef' = c
        /\ dcs' = [dcs EXCEPT ![c] = "connecting"]
        /\ cpc' = [cpc EXCEPT ![c] = "local"]
        /\ UNCHANGED <<status, error, isActive>>
     \/ /\ cpc[c] = "local"                       \* part_004:202
        /\ pcs[c] = "open"
        /\ cpc' = [cpc EXCEPT ![c] = "sdp"]
        /\ UNCHANGED <<status, error, pcRef, dcRef, micStreamRef, mic, pcs, dcs, isActive>>
     \/ /\ cpc[c] = "sdp"                         \* part_004:207-223
        /\ cpc' = [cpc EXCEPT ![c] = "remote"]
        /\ UNCHANGED <<status, error, pcRef, dcRef, micStreamRef, mic, pcs, dcs, isActive>>
     \/ /\ cpc[c] = "remote"                      \* part_004:224, then
        /\ pcs[c] = "open"                        \* VoiceControl.tsx:159
        /\ cpc' = [cpc EXCEPT ![c] = "ok"]
        /\ isActive' = TRUE
        /\ UNCHANGED <<status, error, pcRef, dcRef, micStreamRef, mic, pcs, dcs>>
  /\ UNCHANGED out
  /\ UNCHANGED <<handlerVars, inboundVars, interrupted, mapVars, toolVars>>
  /\ UNCHANGED appVars

\* The awaited operation of connect() c failed: the catch block runs, connect()
\* returns, and handleToggle goes on to setIsActive(true).
ConnectFail(c) ==
  /\ MicrotasksEmpty
  /\ cpc[c] \in {"token", "mic", "local", "sdp", "remote"}
  /\ SetHook(connectCatch(Hook, cpc[c]))
  /\ cpc' = [cpc EXCEPT ![c] = "failed"]
  /\ isActive' = TRUE
  /\ UNCHANGED out
  /\ UNCHANGED <<handlerVars, inboundVars, interrupted, mapVars, toolVars>>
  /\ UNCHANGED appVars

\* dc.onopen that reports the connection without sending the configuration
\* (a variant the place of session.update on the channel is checked against).
DcOnOpenSilent(c) ==
  /\ MicrotasksEmpty
  /\ dcs[c] = "connecting"
  /\ pcs[c] = "open"
  /\ cpc[c] = "ok"
  /\ dcs' = [dcs EXCEPT ![c] = "open"]
  /\ status' = "connected"
  /\ error' = "none"
  /\ UNCHANGED <<pcRef, dcRef, micStreamRef, mic, pcs, cpc, out, isActive>>
  /\ UNCHANGED <<handlerVars, inboundVars, interrupted, mapVars, toolVars>>
  /\ UNCHANGED appVars

\* dc.onopen of the channel of connect() c: the channel opens once the
\* negotiation of its peer connection has completed.
DcOnOpen(c) ==
  /\ MicrotasksEmpty
  /\ dcs[c] = "connecting"
  /\ pcs[c] = "open"
  /\ cpc[c] = "ok"
  /\ dcs' = [dcs EXCEPT ![c] = "open"]
  /\ out' = [out EXCEPT ![c] = Append(@, [type |-> "session.update", call |-> <<0, 0>>, output |-> "none"])]
  /\ status' = "connected"
  /\ error' = "none"
  /\ UNCHANGED <<pcRef, dcRef, micStreamRef, mic, pcs, cpc, isActive>>
  /\ UNCHANGED <<handlerVars, inboundVars, interrupted, mapVars, toolVars>>
  /\ UNCHANGED appVars

\* dc.onclose of the channel of connect() c: the close event that follows
\* dc.close() or pc.close(), or the remote side or the network ending a
\* channel whose transport has been negotiated.
DcOnClose(c) ==
  /\ MicrotasksEmpty
  /\ \/ dcs[c] = "closing"
     \/ dcs[c] \in {"connecting", "open"} /\ cpc[c] = "ok"
  /\ dcs' = [dcs EXCEPT ![c] = "closed"]
  /\ IF pcRef # NULL
       THEN status' = "error" /\ error' = "closed"
       ELSE UNCHANGED <<status, error>>
  /\ UNCHANGED <<pcRef, dcRef, micStreamRef, mic, pcs, cpc, out, isActive>>
  /\ UNCHANGED <<handlerVars, inboundVars, interrupted, mapVars, toolVars>>
  /\ UNCHANGED appVars

\* dc.onmessage of channel c delivers a response.done event: handleEvent h
\* starts and runs to its first await.
DcOnMessage(c, h, items) ==
  /\ MicrotasksEmpty
  /\ dcs[c] = "open"
  /\ hpc[h] = "idle"
  /\ \A g \in EvIds : g < h => hpc[g] # "idle"
  /\ evItems' = [evItems EXCEPT ![h] = items]
  /\ evChan' = [evChan EXCEPT ![h] = c]
  /\ SetHandler(h, ForLoop(h, items, 1, HandlerRec(h)))
  /\ lastIn' = ResponseDone
  /\ nIn' = nIn + 1
  /\ lastChan' = c
  /\ UNCHANGED <<status, error, pcRef, dcRef, micStreamRef, mic, pcs, dcs, cpc, isActive>>
  /\ UNCHANGED <<transcripts, parseErrors, interrupted, mapVars, toolVars>>
  /\ UNCHANGED appVars

\* await handleToolCall(...) of handleEvent h settles with a string (kind
\* "result") or an exception (kind "error"); the reply is sent and the loop
\* runs on to its next await.
HandlerResume(h, kind) ==
  /\ hpc[h] \in {"await", "micro"}
  /\ hpc[h] = "await" => MicrotasksEmpty
  /\ hpc[h] = "micro" => kind = "result"
  /\ LET i == hidx[h]
         r == [HandlerRec(h) EXCEPT !.msgs = Reply(h, i, kind),
                                    !.sends[i] = 2,
                                    !.returned = @ \cup {i}]
     IN SetHandler(h, ForLoop(h, evItems[h], i + 1, r))
  /\ UNCHANGED <<evItems, evChan>>
  /\ UNCHANGED <<status, error, pcRef, dcRef, micStreamRef, mic, pcs, dcs, cpc, isActive>>
  /\ UNCHANGED <<inboundVars, interrupted, mapVars, toolVars>>
  /\ UNCHANGED appVars

\* Messages delivered so far that were not response.done events.
OtherMessages == nIn - Cardinality({ h \in EvIds : hpc[h] # "idle" })

\* dc.onmessage of channel c delivers a message that is not a response.done
\* event: unparsable data, a transcription, a failure report, or an event of
\* a type handleEvent has no case for.
DcOnMessageOther(c, raw) ==
  /\ MicrotasksEmpty
  /\ dcs[c] = "open"
  /\ OtherMessages < MaxMessages
  /\ LET s == onmessage([transcripts |-> transcripts, status |-> status,
                         error |-> error, parseErrors |-> parseErrors],
                        raw, nIn + 1)
     IN /\ transcripts' = s.transcripts
        /\ status' = s.status
        /\ error' = s.error
        /\ parseErrors' = s.parseErrors
  /\ lastIn' = raw
  /\ nIn' = nIn + 1
  /\ lastChan' = c
  /\ UNCHANGED <<pcRef, dcRef, micStreamRef, mic, pcs, dcs, cpc, out, isActive>>
  /\ UNCHANGED <<handlerVars, interrupted, mapVars, toolVars>>
  /\ UNCHANGED appVars

\* Everything but the map view and the waits on it.
sessionVars == <<hookVars, out, isActive, handlerVars, inboundVars, interrupted>>

\* A continuation of the running handleToolCall is in the microtask queue:
\* the next call of the event is about to start, or the promise the tool
\* awaits has been resolved.  No other task runs before it.
ToolMicrotask ==
  \/ tool.pc = "ready"
  \/ tool.pc \in {"stable", "xstable"} /\ stableWait[tool.w].state = "resolved"
  \/ tool.pc = "moveend" /\ moveWait[tool.w].state = "resolved"

\* ControlPanel.tsx:32-38   map.once('idle', () => resolve(null)): the
\* panel's capture, waiting for the tiles, goes on at the next idle event.
onceIdle(p, type) ==
  IF type = "idle" /\ p.pc = "wait" THEN [p EXCEPT !.pc = "fetch"] ELSE p

\* The map, whose flags are m, fires a moveend or idle event: every listener
\* registered for it when the delivery starts is called.
Deliver(type, m) ==
  /\ map' = [m EXCEPT !.events = @ + 1, !.last = type]
  /\ LET called == listeners[type]
         sw == [w \in WaitIds |->
                  IF TryResolveOf(w) \in called
                    THEN tryResolve(stableWait[w], m) ELSE stableWait[w]]
         mw == [w \in WaitIds |->
                  IF FinishOf(w) \in called
                    THEN finish(moveWait[w]) ELSE moveWait[w]]
     IN /\ stableWait' = sw
        /\ moveWait' = mw
        /\ listeners' = OffResolved(listeners, called, sw, mw)

StableMapCallAtOnce(w) ==
  /\ stableWait' = [stableWait EXCEPT ![w].state = "resolved", ![w].resolves = @ + 1]
  /\ UNCHANGED listeners

\* The executor of the promise of the w-th waitForStableMap.
StableMapCall(w) ==
  IF StableNow(map)
    THEN /\ stableWait' = [stableWait EXCEPT ![w].state = "resolved",
                                             ![w].resolves = @ + 1]
         /\ UNCHANGED listeners
    ELSE LET sw == tryResolve([stableWait[w] EXCEPT !.state = "pending"], map)
             l == OnBoth(listeners, TryResolveOf(w))
         IN /\ stableWait' = [stableWait EXCEPT ![w] = sw]
            /\ listeners' = IF sw.done THEN OffBoth(l, TryResolveOf(w)) ELSE l

\* The executor of the promise of the w-th waitForMoveEnd.
MoveEndCall(w) ==
  /\ moveWait' = [moveWait EXCEPT ![w].state = "pending", ![w].timer = "armed"]
  /\ listeners' = [listeners EXCEPT !.moveend = @ \cup {FinishOf(w)}]

\* The wait records that have not been used yet.
FreeStable == { w \in WaitIds : stableWait[w].state = "none" }
FreeMove == { w \in WaitIds : moveWait[w].state = "none" }
FirstOf(ws) == CHOOSE w \in ws : \A v \in ws : w <= v

\* The camera starts or ends a movement: map.isMoving() changes.
SetMoving(b) ==
  /\ ~ToolMicrotask
  /\ camera.ease = "none"
  /\ map.moving # b
  /\ map' = [map EXCEPT !.moving = b]
  /\ UNCHANGED <<listeners, stableWait, moveWait>>
  /\ UNCHANGED <<sessionVars, toolVars>>
  /\ UNCHANGED appVars

\* Tiles start or finish loading: map.loaded() changes.
SetLoaded(b) ==
  /\ ~ToolMicrotask
  /\ map.loaded # b
  /\ map' = [map EXCEPT !.loaded = b]
  /\ UNCHANGED <<listeners, stableWait, moveWait>>
  /\ UNCHANGED <<sessionVars, toolVars>>
  /\ UNCHANGED appVars

\* The map delivers a moveend or an idle notification: every listener that
\* is registered for it when the delivery starts is called, in one task.
\* Nothing is assumed about the flags at that time: the listeners read them.
Notify(type) ==
  /\ ~ToolMicrotask
  /\ map.events < MaxNotifications
  /\ Deliver(type, map)
  /\ panel' = onceIdle(panel, type)
  /\ UNCHANGED <<loadingState, clicks, notes>>
  /\ UNCHANGED <<sessionVars, toolVars>>

\* waitForStableMap(map) is called for the w-th time: the promise executor
\* runs to its end.
CallWaitForStableMap(w) ==
  /\ stableWait[w].state = "none"
  /\ \A v \in WaitIds : v < w => stableWait[v].state # "none"
  /\ StableMapCall(w)
  /\ UNCHANGED <<map, moveWait>>
  /\ UNCHANGED <<sessionVars, toolVars>>
  /\ UNCHANGED appVars

\* waitForMoveEnd(map, 3000) is called for the w-th time, by locate_place
\* when map.isMoving(): the listener is registered and the timer armed.
CallWaitForMoveEnd(w) ==
  /\ moveWait[w].state = "none"
  /\ \A v \in WaitIds : v < w => moveWait[v].state # "none"
  /\ map.moving
  /\ MoveEndCall(w)
  /\ UNCHANGED <<map, stableWait>>
  /\ UNCHANGED <<sessionVars, toolVars>>
  /\ UNCHANGED appVars

\* The timeout of the w-th waitForMoveEnd expires: setTimeout calls finish.
TimerFire(w) ==
  /\ ~ToolMicrotask
  /\ moveWait[w].timer = "armed"
  /\ moveWait' = [moveWait EXCEPT ![w] = [finish(@) EXCEPT !.timer = "fired"]]
  /\ listeners' = OffMoveEnd(listeners, FinishOf(w))
  /\ UNCHANGED <<map, stableWait>>
  /\ UNCHANGED <<sessionVars, toolVars>>
  /\ UNCHANGED appVars

\* ------------------------------------------------------------ App state
\* App.tsx:91-99   handleAddRequestStart
handleAddRequestStart(ls, k) ==
  [ls EXCEPT !.addObjectRequests = @ \cup {k}]

handleAddRequestKept(ls, k) == ls

\* App.tsx:103-108   handleAddRequestComplete
handleAddRequestComplete(ls, k) ==
  [ls EXCEPT !.addObjectRequests = @ \ {k}]

\* App.tsx:223, 233   onTextSegmentationStart
onTextSegmentationStart(ls) == [ls EXCEPT !.textSegmentation = TRUE]

\* App.tsx:224, 234   onTextSegmentationComplete
onTextSegmentationComplete(ls) == [ls EXCEPT !.textSegmentation = FALSE]

handleObjectsReplaced(prev, n) == n

\* App.tsx:34-35   setDetectedObjects(prev => [...prev, ...newObjects]), on
\* the number of objects
handleObjectsDetected(prev, n) == prev + n

\* App.tsx:78-79   setDetectedObjects(prev => [...prev, newObject])
handleAddObjectComplete(prev) == prev + 1

\* ------------------------------------------------------------ the tools
\* part_003:296   (args.steps as number) || 2
StepsOrDefault(st) ==
  IF ~st.present \/ st.value = 0 THEN DefaultSteps ELSE st.value

LevelGiven(l) == l.present /\ l.value # 0

\* part_003:311   the negation of  !level || level < 1 || level > 20
LevelValid(l) ==
  /\ l.present /\ l.value # 0
  /\ l.value >= MinLevel
  /\ l.value <= TopLevel

\* case 'zoom_map' at zoom z: the level passed to map.zoomTo (request, if
\* any) and the result string, as its kind and the number it carries.
zoomMap(call, z) ==
  CASE call.action = "zoom_in" ->
         LET newZoom == Min(z + StepsOrDefault(call.steps), TopLevel)
         IN [request |-> Arg(TRUE, newZoom), result |-> "zoomed_in", count |-> newZoom]
    [] call.action = "zoom_out" ->
         LET newZoom == Max(z - StepsOrDefault(call.steps), MinLevel)
         IN [request |-> Arg(TRUE, newZoom), result |-> "zoomed_out", count |-> newZoom]
    [] call.action = "zoom_to" ->
         IF LevelValid(call.level)
           THEN [request |-> call.level, result |-> "zoomed_to",
                 count |-> call.level.value]
           ELSE [request |-> NoArg, result |-> "level_out_of_range", count |-> 0]
    [] OTHER -> [request |-> NoArg, result |-> "unknown_action", count |-> 0]

\* case 'export_data' when detectedObjectsRef.current holds k objects: the
\* calls of onExportShapefileRef.current and the result string.
exportData(k) ==
  IF k = 0
    THEN [exported |-> 0, result |-> "nothing_to_export", count |-> 0]
    ELSE [exported |-> 1, result |-> "exporting", count |-> k]

\* The record of the call at the head of the queue, as it is entered.
Entered ==
  [NoReturn EXCEPT !.n = ret.n + 1, !.call = Head(tool.queue),
                   !.from = camera.zoom, !.tracked = objects.state]

\* handleToolCall returns: handleEvent sends the reply and enters the next
\* call of the event, if there is one, in the same task.
Returned ==
  [ToolIdle EXCEPT !.pc = IF Len(tool.queue) > 1 THEN "ready" ELSE "idle",
                   !.queue = Tail(tool.queue)]

\* A response.done event with these function calls is delivered: the for
\* loop of handleEvent will enter them one after the other.
ToolEvent(calls) ==
  /\ tool.pc = "idle"
  /\ ret.n + Len(calls) <= MaxInvocations
  /\ Cardinality({ i \in 1..Len(calls) : calls[i].name \in {"locate_place", "extract_objects"} })
       <= Cardinality(FreeStable)
  /\ Cardinality({ i \in 1..Len(calls) : calls[i].name = "locate_place" })
       <= Cardinality(FreeMove)
  /\ tool' = [ToolIdle EXCEPT !.pc = "ready", !.queue = calls]
  /\ UNCHANGED <<camera, objects, ret>>
  /\ UNCHANGED <<sessionVars, mapVars>>
  /\ UNCHANGED appVars

\* handleToolCall('zoom_map', args) runs to its return.  map.zoomTo starts a
\* camera transition of one second: the map is moving from then on.
ZoomMap ==
  /\ tool.pc = "ready"
  /\ Head(tool.queue).name = "zoom_map"
  /\ LET r == zoomMap(Head(tool.queue), camera.zoom)
     IN /\ ret' = [Entered EXCEPT !.request = r.request, !.result = r.result,
                                  !.count = r.count]
        /\ IF r.request.present
             THEN /\ camera' = [camera EXCEPT !.ease = "zoom",
                                              !.target = r.request.value]
                  /\ map' = [map EXCEPT !.moving = TRUE]
             ELSE UNCHANGED <<camera, map>>
  /\ tool' = Returned
  /\ UNCHANGED <<objects, listeners, stableWait, moveWait>>
  /\ UNCHANGED sessionVars
  /\ UNCHANGED appVars

\* handleToolCall('export_data', {}) runs to its return.
ExportData ==
  /\ tool.pc = "ready"
  /\ Head(tool.queue).name = "export_data"
  /\ LET r == exportData(objects.ref)
     IN ret' = [Entered EXCEPT !.exported = r.exported, !.result = r.result,
                               !.count = r.count]
  /\ tool' = Returned
  /\ UNCHANGED <<camera, objects>>
  /\ UNCHANGED <<sessionVars, mapVars>>
  /\ UNCHANGED appVars

\* handleToolCall('locate_place', args) up to its first await.
LocateStart ==
  /\ tool.pc = "ready"
  /\ Head(tool.queue).name = "locate_place"
  /\ IF Head(tool.queue).arg
       THEN /\ tool' = [tool EXCEPT !.pc = "geocode"]
            /\ UNCHANGED ret
       ELSE /\ ret' = [Entered EXCEPT !.result = "no_place_name"]
            /\ tool' = Returned
  /\ UNCHANGED <<camera, objects>>
  /\ UNCHANGED <<sessionVars, mapVars>>
  /\ UNCHANGED appVars

\* geocodePlace settles.  Found with a bbox or coordinates, fitBounds or
\* flyTo starts a camera transition of two seconds; then the tool awaits
\* the next animation frame.
GeocodeDone(outcome) ==
  /\ tool.pc = "geocode"
  /\ CASE outcome = "rejected" ->
            /\ ret' = [Entered EXCEPT !.result = "threw"]
            /\ tool' = Returned
            /\ UNCHANGED <<camera, map>>
       [] outcome = "not_found" ->
            /\ ret' = [Entered EXCEPT !.result = "place_not_found"]
            /\ tool' = Returned
            /\ UNCHANGED <<camera, map>>
       [] outcome = "found" ->
            /\ camera' = [camera EXCEPT !.ease = "fly", !.target = FlyZoom]
            /\ map' = [map EXCEPT !.moving = TRUE]
            /\ tool' = [tool EXCEPT !.pc = "raf"]
            /\ UNCHANGED ret
       [] outcome = "found_nowhere" ->
            /\ tool' = [tool EXCEPT !.pc = "raf"]
            /\ UNCHANGED <<camera, map, ret>>
  /\ UNCHANGED <<objects, listeners, stableWait, moveWait>>
  /\ UNCHANGED sessionVars
  /\ UNCHANGED appVars

\* The animation frame arrives: if (map.isMoving()) await waitForMoveEnd,
\* else straight on to await waitForStableMap.
RafDone ==
  /\ tool.pc = "raf"
  /\ IF map.moving
       THEN LET w == FirstOf(FreeMove)
            IN /\ MoveEndCall(w)
               /\ tool' = [tool EXCEPT !.pc = "moveend", !.w = w]
               /\ UNCHANGED stableWait
       ELSE LET w == FirstOf(FreeStable)
            IN /\ StableMapCall(w)
               /\ tool' = [tool EXCEPT !.pc = "stable", !.w = w]
               /\ UNCHANGED moveWait
  /\ UNCHANGED <<map, camera, objects, ret>>
  /\ UNCHANGED sessionVars
  /\ UNCHANGED appVars

\* waitForMoveEnd has resolved: await waitForStableMap(map).
MoveEndResolved ==
  /\ tool.pc = "moveend"
  /\ moveWait[tool.w].state = "resolved"
  /\ LET w == FirstOf(FreeStable)
     IN /\ StableMapCall(w)
        /\ tool' = [tool EXCEPT !.pc = "stable", !.w = w]
  /\ UNCHANGED <<map, moveWait, camera, objects, ret>>
  /\ UNCHANGED sessionVars
  /\ UNCHANGED appVars

LocateReturnUnsettled ==
  /\ tool.pc = "stable"
  /\ ret' = [Entered EXCEPT !.result = "located"]
  /\ tool' = Returned
  /\ UNCHANGED <<camera, objects>>
  /\ UNCHANGED <<sessionVars, mapVars>>
  /\ UNCHANGED appVars

\* waitForStableMap has resolved: locate_place returns its confirmation.
LocateReturn ==
  /\ tool.pc = "stable"
  /\ stableWait[tool.w].state = "resolved"
  /\ ret' = [Entered EXCEPT !.result = "located"]
  /\ tool' = Returned
  /\ UNCHANGED <<camera, objects>>
  /\ UNCHANGED <<sessionVars, mapVars>>
  /\ UNCHANGED appVars

\* handleToolCall('extract_objects', args) up to its first await, which is
\* the waitForStableMap of captureAndSegment.
ExtractStart ==
  /\ tool.pc = "ready"
  /\ Head(tool.queue).name = "extract_objects"
  /\ IF Head(tool.queue).arg
       THEN LET w == FirstOf(FreeStable)
            IN /\ StableMapCall(w)
               /\ tool' = [tool EXCEPT !.pc = "xstable", !.w = w,
                                       !.prompt = englishPrompt(Head(tool.queue).object_type)]
               /\ loadingState' = onTextSegmentationStart(loadingState)
               /\ notes' = [notes EXCEPT !.starts = @ + 1]
               /\ UNCHANGED ret
       ELSE /\ ret' = [Entered EXCEPT !.result = "no_object_type"]
            /\ tool' = Returned
            /\ UNCHANGED <<listeners, stableWait, loadingState, notes>>
  /\ UNCHANGED <<map, moveWait, camera, objects, clicks, panel>>
  /\ UNCHANGED sessionVars

\* waitForStableMap has resolved: canvas.toDataURL renders the view into
\* the image; then await fetch(dataUrl).
Capture ==
  /\ tool.pc = "xstable"
  /\ stableWait[tool.w].state = "resolved"
  /\ tool' = [tool EXCEPT !.pc = "fetch", !.image = camera.view,
                          !.ease = camera.ease]
  /\ UNCHANGED <<camera, objects, ret>>
  /\ UNCHANGED <<sessionVars, mapVars>>
  /\ UNCHANGED appVars

\* fetch(dataUrl) settles: await resp.blob().
FetchDone ==
  /\ tool.pc = "fetch"
  /\ tool' = [tool EXCEPT !.pc = "blob"]
  /\ UNCHANGED <<camera, objects, ret>>
  /\ UNCHANGED <<sessionVars, mapVars>>
  /\ UNCHANGED appVars

\* resp.blob() settles: buildCaptureBounds reads the bounds and the corner
\* points of the view; then await segmentImageWithText(file, prompt, bounds).
BlobDone ==
  /\ tool.pc = "blob"
  /\ tool' = [tool EXCEPT !.pc = "segment", !.bounds = camera.view]
  /\ UNCHANGED <<camera, objects, ret>>
  /\ UNCHANGED <<sessionVars, mapVars>>
  /\ UNCHANGED appVars

segmentResultUnchecked(f) ==
  IF f.present
    THEN [detected |-> 1, added |-> f.value, result |-> "extracted", count |-> f.value]
    ELSE [detected |-> 0, added |-> 0, result |-> "segmentation_failed", count |-> 0]

\* part_003:114-125, 281-287   what captureAndSegment and extract_objects
\* make of the answer f of the segmentation: the calls of onObjectsDetected,
\* the objects passed to it, and the result string.
segmentResult(f) ==
  IF f.present /\ f.value > 0
    THEN [detected |-> 1, added |-> f.value, result |-> "extracted", count |-> f.value]
    ELSE [detected |-> 0, added |-> 0, result |-> "segmentation_failed", count |-> 0]

\* segmentImageWithText settles, with f.value features or (f absent) with a
\* rejection: extract_objects runs to its return.  App.tsx:34-35: the
\* objects passed to onObjectsDetected are appended to the collection.
SegmentDone(f) ==
  /\ tool.pc = "segment"
  /\ LET r == segmentResult(f)
     IN /\ objects.state + r.added <= MaxObjects
        /\ objects' = [objects EXCEPT !.state = handleObjectsDetected(@, r.added)]
        /\ ret' = [Entered EXCEPT !.features = f, !.detected = r.detected,
                                  !.added = r.added, !.result = r.result,
                                  !.count = r.count, !.image = tool.image,
                                  !.bounds = tool.bounds, !.ease = tool.ease,
                                  !.tracked = objects.state,
                                  !.prompt = tool.prompt]
  /\ tool' = Returned
  /\ loadingState' = onTextSegmentationComplete(loadingState)
  /\ notes' = [notes EXCEPT !.completes = @ + 1]
  /\ UNCHANGED <<camera, clicks, panel>>
  /\ UNCHANGED <<sessionVars, mapVars>>

\* What the segmentation can answer.
Features == {NoArg} \cup { Arg(TRUE, n) : n \in 0..MaxFeatures }

\* The camera transition a tool started comes to its end: the camera is at
\* the target (which the map keeps within 0..MaxMapZoom), the map is no
\* longer moving and fires moveend; the tiles of the new view are loaded
\* already (b) or not.
EaseEnd(b) ==
  /\ ~ToolMicrotask
  /\ camera.ease # "none"
  /\ camera.view < MaxViews
  /\ map.events < MaxNotifications
  /\ camera' = [camera EXCEPT !.ease = "none",
                              !.zoom = Max(0, Min(camera.target, MaxMapZoom)),
                              !.view = @ + 1]
  /\ Deliver("moveend", [map EXCEPT !.moving = FALSE, !.loaded = b])
  /\ UNCHANGED <<objects, tool, ret>>
  /\ UNCHANGED sessionVars
  /\ UNCHANGED appVars

\* While the map is moving (a camera transition, a drag of the user) the
\* view changes.
CameraMove ==
  /\ ~ToolMicrotask
  /\ map.moving
  /\ camera.view < MaxViews
  /\ camera' = [camera EXCEPT !.view = @ + 1]
  /\ UNCHANGED <<objects, tool, ret>>
  /\ UNCHANGED <<sessionVars, mapVars>>
  /\ UNCHANGED appVars

\* App.tsx:77-79   handleAddObjectComplete: a point click added an object
UiAdd ==
  /\ ~ToolMicrotask
  /\ objects.state < MaxObjects
  /\ objects' = [objects EXCEPT !.state = handleAddObjectComplete(@)]
  /\ UNCHANGED <<camera, tool, ret>>
  /\ UNCHANGED <<sessionVars, mapVars>>
  /\ UNCHANGED appVars

\* App.tsx:43-44   handleDeleteObject
UiDelete ==
  /\ ~ToolMicrotask
  /\ objects.state > 0
  /\ objects' = [objects EXCEPT !.state = @ - 1]
  /\ UNCHANGED <<camera, tool, ret>>
  /\ UNCHANGED <<sessionVars, mapVars>>
  /\ UNCHANGED appVars

\* part_003:145-147   the effect that runs after a render with a changed
\* detectedObjects:  detectedObjectsRef.current = detectedObjects
SyncRef ==
  /\ ~ToolMicrotask
  /\ objects.ref # objects.state
  /\ objects' = [objects EXCEPT !.ref = objects.state]
  /\ UNCHANGED <<camera, tool, ret>>
  /\ UNCHANGED <<sessionVars, mapVars>>
  /\ UNCHANGED appVars

\* ------------------------------------------- MapView and ControlPanel
\* The awaits of handleAddObjectClick after waitForStableMap, in order:
\* fetch(dataUrl), response.blob(), the load of the image, the import of
\* the api module, segmentSingleObject.
AfterAwait(pc) ==
  CASE pc = "stable" -> "fetch"
    [] pc = "fetch" -> "blob"
    [] pc = "blob" -> "image"
    [] pc = "image" -> "import"
    [] pc = "import" -> "segment"

\* The waitForStableMap calls the invocations still in the queue behind
\* the running one will make.
WaitsToCome ==
  Cardinality({ i \in 2..Len(tool.queue) :
                  tool.queue[i].name \in {"locate_place", "extract_objects"} })

\* MapView.tsx:195-219   handleAddObjectClick is called for the k-th time
\* and runs to its first await; without a map it cancels and returns.
AddObjectClick(k, mapThere) ==
  /\ ~ToolMicrotask
  /\ clicks[k].pc = "idle"
  /\ \A j \in ClickIds : j < k => clicks[j].pc # "idle"
  /\ mapThere => Cardinality(FreeStable) > WaitsToCome
  /\ IF mapThere
       THEN LET w == FirstOf(FreeStable)
            IN /\ StableMapCall(w)
               /\ clicks' = [clicks EXCEPT ![k] = [pc |-> "stable", w |-> w]]
               /\ loadingState' = handleAddRequestStart(loadingState, k)
       ELSE /\ clicks' = [clicks EXCEPT ![k].pc = "cancelled"]
            /\ loadingState' =
                 handleAddRequestComplete(handleAddRequestStart(loadingState, k), k)
            /\ UNCHANGED <<listeners, stableWait>>
  /\ UNCHANGED <<map, moveWait, panel, notes>>
  /\ UNCHANGED <<sessionVars, toolVars>>

\* MapView.tsx:219-294, 305-310   the await the k-th handleAddObjectClick is
\* suspended at settles: it runs on to the next await, or (not ok) what it
\* awaited was rejected or the code after it threw, and the catch block
\* runs.
AddObjectResume(k, ok) ==
  /\ ~ToolMicrotask
  /\ clicks[k].pc \in {"stable", "fetch", "blob", "image", "import"}
  /\ clicks[k].pc = "stable" => stableWait[clicks[k].w].state = "resolved"
  /\ IF ok
       THEN /\ clicks' = [clicks EXCEPT ![k].pc = AfterAwait(@)]
            /\ UNCHANGED loadingState
       ELSE /\ clicks' = [clicks EXCEPT ![k].pc = "failed"]
            /\ loadingState' = handleAddRequestComplete(loadingState, k)
  /\ UNCHANGED <<panel, notes>>
  /\ UNCHANGED <<sessionVars, mapVars, toolVars>>

\* MapView.tsx:294-310   segmentSingleObject settles: with a feature the
\* object is added, without one or with a rejection nothing is; the
\* request is taken from the queue on each path.
AddObjectSegmented(k, outcome) ==
  /\ ~ToolMicrotask
  /\ clicks[k].pc = "segment"
  /\ IF outcome = "feature"
       THEN /\ objects.state < MaxObjects
            /\ objects' = [objects EXCEPT !.state = handleAddObjectComplete(@)]
            /\ clicks' = [clicks EXCEPT ![k].pc = "added"]
       ELSE /\ clicks' = [clicks EXCEPT ![k].pc = "failed"]
            /\ UNCHANGED objects
  /\ loadingState' = handleAddRequestComplete(loadingState, k)
  /\ UNCHANGED <<camera, tool, ret, panel, notes>>
  /\ UNCHANGED <<sessionVars, mapVars>>

\* ControlPanel.tsx:61-79, 23-38   the segment button is clicked (it is
\* disabled while isSegmenting) with a text prompt: handleSegment notifies
\* the start and captureMapView runs to its await; without a map it returns
\* null, and the complete notification is made on the spot and again in
\* the finally block.
PanelSegment(mapThere) ==
  /\ ~ToolMicrotask
  /\ panel.pc = "none"
  /\ panel.n < MaxPanelRuns
  /\ ~loadingState.textSegmentation
  /\ panel' = [pc |-> IF ~mapThere THEN "none"
                      ELSE IF map.loaded THEN "fetch" ELSE "wait",
               n |-> panel.n + 1, added |-> 0]
  /\ loadingState' =
       IF mapThere
         THEN onTextSegmentationStart(loadingState)
         ELSE onTextSegmentationComplete(onTextSegmentationComplete(
                onTextSegmentationStart(loadingState)))
  /\ UNCHANGED <<clicks, notes>>
  /\ UNCHANGED <<sessionVars, mapVars, toolVars>>

\* ControlPanel.tsx:81-84, 118-123   fetch(dataUrl) or response.blob()
\* settles: handleSegment runs on, or the catch and finally blocks run.
PanelResume(ok) ==
  /\ ~ToolMicrotask
  /\ panel.pc \in {"fetch", "blob"}
  /\ IF ok
       THEN /\ panel' = [panel EXCEPT !.pc = IF @ = "fetch" THEN "blob" ELSE "segment"]
            /\ UNCHANGED loadingState
       ELSE /\ panel' = [panel EXCEPT !.pc = "none"]
            /\ loadingState' = onTextSegmentationComplete(loadingState)
  /\ UNCHANGED <<clicks, notes>>
  /\ UNCHANGED <<sessionVars, mapVars, toolVars>>

\* ControlPanel.tsx:95-123   segmentImageWithText settles, with f.value
\* features or (f absent) with a rejection: the objects are passed to
\* onObjectsDetected, and the finally block notifies the completion.
PanelSegmented(f) ==
  /\ ~ToolMicrotask
  /\ panel.pc = "segment"
  /\ LET n == IF f.present THEN f.value ELSE 0
     IN /\ objects.state + n <= MaxObjects
        /\ objects' = [objects EXCEPT !.state = handleObjectsDetected(@, n)]
        /\ panel' = [panel EXCEPT !.pc = "none", !.added = n]
  /\ loadingState' = onTextSegmentationComplete(loadingState)
  /\ UNCHANGED <<camera, tool, ret, clicks, notes>>
  /\ UNCHANGED <<sessionVars, mapVars>>

\* The session and its controller: toggle clicks, connect() and the channel's
\* open and close events.
NextSession ==
  \/ ToggleOff
  \/ \E c \in ConnIds : ToggleOn(c)
  \/ \E c \in ConnIds : ConnectResume(c)
  \/ \E c \in ConnIds : ConnectFail(c)
  \/ \E c \in ConnIds : DcOnOpen(c)
  \/ \E c \in ConnIds : DcOnClose(c)

\* The dispatcher on the sessions 1..MaxSessions.
NextDispatch ==
  \/ ToggleOff
  \/ \E c \in SessIds : ToggleOn(c)
  \/ \E c \in SessIds : ConnectResume(c)
  \/ \E c \in SessIds : ConnectFail(c)
  \/ \E c \in SessIds : DcOnOpen(c)
  \/ \E c \in SessIds : DcOnClose(c)
  \/ \E c \in SessIds, h \in EvIds, items \in Outputs : DcOnMessage(c, h, items)
  \/ \E h \in EvIds, kind \in {"result", "error"} : HandlerResume(h, kind)

\* One session with everything its data channel delivers: messages of every
\* kind, among them up to MaxToolEvents response.done events.
NextInbound ==
  \/ ToggleOff
  \/ \E c \in SessIds : ToggleOn(c)
  \/ \E c \in SessIds : ConnectResume(c)
  \/ \E c \in SessIds : ConnectFail(c)
  \/ \E c \in SessIds : DcOnOpen(c)
  \/ \E c \in SessIds : DcOnClose(c)
  \/ \E c \in SessIds, raw \in RawMessages : DcOnMessageOther(c, raw)
  \/ \E c \in SessIds, h \in ToolEvIds, items \in Outputs : DcOnMessage(c, h, items)
  \/ \E h \in ToolEvIds, kind \in {"result", "error"} : HandlerResume(h, kind)

\* The sessions of MaxConnects connect() calls and the transcript they keep.
NextTranscript ==
  \/ NextSession
  \/ \E c \in ConnIds, raw \in RawMessages : DcOnMessageOther(c, raw)

\* The map view and the waits of the voice tools on it.
NextMap ==
  \/ \E b \in BOOLEAN : SetMoving(b)
  \/ \E b \in BOOLEAN : SetLoaded(b)
  \/ \E type \in {"moveend", "idle"} : Notify(type)
  \/ \E w \in WaitIds : CallWaitForStableMap(w)
  \/ \E w \in WaitIds : CallWaitForMoveEnd(w)
  \/ \E w \in WaitIds : TimerFire(w)

\* zoom_map on its own, with every argument, at every zoom level.
NextZoom ==
  \/ \E call \in ZoomCalls : ToolEvent(<<call>>)
  \/ ZoomMap
  \/ \E b \in BOOLEAN : EaseEnd(b)

\* The steps of extract_objects after it has been entered.
ExtractSteps ==
  \/ Capture
  \/ FetchDone
  \/ BlobDone
  \/ \E f \in Features : SegmentDone(f)

\* locate_place with the map around it: the camera transition it starts,
\* the user, the tiles, the notifications and the timers.
NextLocate ==
  \/ \E calls \in CallSeqs(LocateCalls) : ToolEvent(calls)
  \/ LocateStart
  \/ \E outcome \in {"rejected", "not_found", "found", "found_nowhere"} : GeocodeDone(outcome)
  \/ RafDone
  \/ MoveEndResolved
  \/ LocateReturn
  \/ \E b \in BOOLEAN : EaseEnd(b)
  \/ \E b \in BOOLEAN : SetMoving(b)
  \/ \E b \in BOOLEAN : SetLoaded(b)
  \/ \E type \in {"moveend", "idle"} : Notify(type)
  \/ \E w \in WaitIds : TimerFire(w)

\* zoom_map and extract_objects with the map around them.
NextCapture ==
  \/ \E calls \in CallSeqs(SomeZoomCalls \cup ExtractCalls) : ToolEvent(calls)
  \/ ZoomMap
  \/ ExtractStart
  \/ ExtractSteps
  \/ \E b \in BOOLEAN : EaseEnd(b)
  \/ CameraMove
  \/ \E b \in BOOLEAN : SetMoving(b)
  \/ \E b \in BOOLEAN : SetLoaded(b)
  \/ \E type \in {"moveend", "idle"} : Notify(type)

\* export_data and extract_objects with the collection they share: the
\* user adds and deletes objects, the effect brings the ref up to date.
NextExport ==
  \/ \E calls \in CallSeqs(ExportCalls \cup ExtractCalls) : ToolEvent(calls)
  \/ ExportData
  \/ ExtractStart
  \/ ExtractSteps
  \/ UiAdd
  \/ UiDelete
  \/ SyncRef
  \/ \E b \in BOOLEAN : SetLoaded(b)
  \/ Notify("idle")

\* extract_objects with every object_type.
NextPrompt ==
  \/ \E t \in ObjectTypes : ToolEvent(<<ExtractCall(t)>>)
  \/ ExtractStart
  \/ ExtractSteps
  \/ \E b \in BOOLEAN : SetLoaded(b)
  \/ Notify("idle")

\* Point clicks in add-object mode with the map around them.
NextAdd ==
  \/ \E k \in ClickIds, mapThere \in BOOLEAN : AddObjectClick(k, mapThere)
  \/ \E k \in ClickIds, ok \in BOOLEAN : AddObjectResume(k, ok)
  \/ \E k \in ClickIds, outcome \in {"feature", "no_feature", "rejected"} :
       AddObjectSegmented(k, outcome)
  \/ UiDelete
  \/ \E b \in BOOLEAN : SetMoving(b)
  \/ \E b \in BOOLEAN : SetLoaded(b)
  \/ \E type \in {"moveend", "idle"} : Notify(type)

\* The three sources of detected objects side by side: extract_objects of
\* the voice tools, the text segmentation of the panel, and a point click.
NextApp ==
  \/ \E call \in ExtractCalls : ToolEvent(<<call>>)
  \/ ExtractStart
  \/ ExtractSteps
  \/ \E mapThere \in BOOLEAN : PanelSegment(mapThere)
  \/ \E ok \in BOOLEAN : PanelResume(ok)
  \/ \E f \in Features : PanelSegmented(f)
  \/ \E mapThere \in BOOLEAN : AddObjectClick(1, mapThere)
  \/ \E ok \in BOOLEAN : AddObjectResume(1, ok)
  \/ \E outcome \in {"feature", "no_feature", "rejected"} : AddObjectSegmented(1, outcome)
  \/ \E b \in BOOLEAN : SetLoaded(b)
  \/ Notify("idle")

Next ==
  \/ NextPrompt
  \/ NextAdd
  \/ NextApp
  \/ NextSession
  \/ NextLocate
  \/ NextCapture
  \/ NextExport
  \/ NextMap
  \/ \E c \in ConnIds, raw \in RawMessages : DcOnMessageOther(c, raw)
  \/ \E c \in ConnIds, h \in EvIds, items \in Outputs : DcOnMessage(c, h, items)
  \/ \E h \in EvIds, kind \in {"result", "error"} : HandlerResume(h, kind)

\* Spec is the whole system; SpecSession, SpecInbound, SpecTranscript,
\* SpecMap and SpecDispatch are its parts, each small enough to be explored
\* exhaustively.
Spec == Init /\ [][Next]_vars
SpecSession == Init /\ [][NextSession]_vars
SpecInbound == Init /\ [][NextInbound]_vars
SpecTranscript == Init /\ [][NextTranscript]_vars
\* An armed timer does expire: the event loop runs every due setTimeout
\* callback.
SpecMap == Init /\ [][NextMap]_vars /\ \A w \in WaitIds : WF_vars(TimerFire(w))
SpecZoom == InitZoom /\ [][NextZoom]_vars
\* Every task of locate_place that is due does run: the settled geocode,
\* the animation frame, the timers and the continuations.  The map fires
\* idle when it has stayed unmoving and loaded.  Nothing is assumed of the
\* camera, the tiles and the user.
LocateFair ==
  /\ WF_vars(LocateStart)
  /\ WF_vars(\E outcome \in {"rejected", "not_found", "found", "found_nowhere"} :
               GeocodeDone(outcome))
  /\ WF_vars(RafDone) /\ WF_vars(MoveEndResolved) /\ WF_vars(LocateReturn)
  /\ \A w \in WaitIds : WF_vars(TimerFire(w))
  /\ WF_vars(StableNow(map) /\ Notify("idle"))
SpecLocate == Init /\ [][NextLocate]_vars /\ LocateFair
SpecCapture == Init /\ [][NextCapture]_vars
SpecExport == Init /\ [][NextExport]_vars
SpecPrompt == Init /\ [][NextPrompt]_vars
SpecAdd == Init /\ [][NextAdd]_vars
SpecApp == Init /\ [][NextApp]_vars
SpecDispatch == Init /\ [][NextDispatch]_vars

\* One response.done event and the sessions 1..MaxConnects: the handler of
\* the event can outlive the session that delivered it.
NextCancel ==
  \/ NextSession
  \/ \E c \in ConnIds, h \in ToolEvIds, items \in Outputs : DcOnMessage(c, h, items)
  \/ \E h \in ToolEvIds, kind \in {"result", "error"} : HandlerResume(h, kind)

SpecCancel == Init /\ [][NextCancel]_vars

\* ------------------------------------------------------------ properties
\* The function_call_output messages on channel c, as the invocations they
\* answer, in the order they were transmitted.
OutputCalls(c) ==
  LET ks == { k \in 1..Len(out[c]) : out[c][k].type = "conversation.item.create" }
      nth[n \in 0..Cardinality(ks)] ==
        IF n = 0 THEN 0 ELSE CHOOSE k \in ks : k > nth[n - 1] /\ \A j \in ks : j > nth[n - 1] => k <= j
  IN [n \in 1..Cardinality(ks) |-> out[c][nth[n]].call]

\* Event h has been handled to the end of its loop on a channel that has been
\* open, and the one dcRef holds, ever since the event arrived.
HandledOnOpenChannel(h) ==
  /\ hpc[h] = "done"
  /\ evChan[h] # NULL
  /\ dcRef = evChan[h]
  /\ dcs[dcRef] = "open"

\* The items of event h that are function calls carrying a call_id.
Calls(h) ==
  { i \in DOMAIN evItems[h] : evItems[h][i].type = "function_call" /\ evItems[h][i].call_id }

\* C1: within one response.done event the tool invocations run in array order
\* and never overlap: when the handler of an invocation has been entered, every
\* earlier invocation of the same event has returned and both messages of its
\* reply (function_call_output, response.create) have been passed to send.
C1_SequentialDispatch ==
  \A h \in EvIds : \A j \in started[h] : \A i \in 1..(j - 1) :
    Dispatchable(evItems[h][i]) =>
      /\ sends[h][i] = 2
      /\ i \in started[h] => i \in returned[h]

\* C1 witness: the second invocation of an event is in flight after the first
\* one, which suspended on a collaborator, has returned and been answered.
C1_Witness ==
  \E h \in EvIds :
    /\ Len(evItems[h]) >= 2
    /\ Suspends(evItems[h][1].name) /\ 1 \in returned[h] /\ sends[h][1] = 2
    /\ 2 \in started[h] /\ hpc[h] = "await" /\ hidx[h] = 2

\* C2: for the function_call items of one response.done event handled while the
\* channel stays open, exactly one function_call_output per call_id is sent,
\* in the order of the items in the event.
C2_ExactlyOneOutputPerCall ==
  \A h \in EvIds : HandledOnOpenChannel(h) =>
    LET mine == SelectSeq(OutputCalls(dcRef), LAMBDA x : x[1] = h)
    IN /\ \A i \in Calls(h) :
            Cardinality({ n \in 1..Len(mine) : mine[n] = <<h, i>> }) = 1
       /\ \A m, n \in 1..Len(mine) : m < n => mine[m][2] < mine[n][2]

\* C3: every function_call item that carries a call_id is answered: once its
\* event has been handled on an open channel, a function_call_output for it
\* has been transmitted.
C3_EveryCallAnswered ==
  \A h \in EvIds : HandledOnOpenChannel(h) =>
    \A i \in Calls(h) :
      \E k \in 1..Len(out[dcRef]) :
        out[dcRef][k].type = "conversation.item.create" /\ out[dcRef][k].call = <<h, i>>

\* C4: on every channel each response.create directly follows the
\* function_call_output of the invocation it belongs to.
C4_ReplyPairsAdjacent ==
  \A c \in ConnIds : \A k \in 1..Len(out[c]) :
    out[c][k].type = "response.create" =>
      /\ k > 1
      /\ out[c][k - 1].type = "conversation.item.create"
      /\ out[c][k - 1].call = out[c][k].call

\* C4 witness: one event's reply has been transmitted while the handler of
\* another event is still suspended in a tool that has already answered an
\* earlier invocation on the same channel.
C4_Witness ==
  \E c \in ConnIds, g, h \in EvIds :
    /\ g # h
    /\ hpc[g] = "await" /\ hidx[g] = 2 /\ sends[g][1] = 2
    /\ \E k, m \in 1..Len(out[c]) :
         /\ k < m
         /\ out[c][k].type = "response.create" /\ out[c][k].call = <<g, 1>>
         /\ out[c][m].type = "response.create" /\ out[c][m].call[1] = h

\* C5: at most one tool handler is in flight at any time in the session.
C5_OneHandlerInFlight ==
  Cardinality({ h \in EvIds : hpc[h] \in {"await", "micro"} }) <= 1

\* C6: every change of the connection status is one of disconnected ->
\* connecting, connecting -> connected, connecting -> error, connected ->
\* error, error -> disconnected, connected -> disconnected.
StatusTransitions ==
  { <<"disconnected", "connecting">>, <<"connecting", "connected">>,
    <<"connecting", "error">>, <<"connected", "error">>,
    <<"error", "disconnected">>, <<"connected", "disconnected">> }

C6_StatusTransitions ==
  [][status' # status => <<status, status'>> \in StatusTransitions]_vars

\* C7: at most one acquired microphone stream is live at any time, and none is
\* live while the status is disconnected.
C7_OneLiveMicrophone ==
  /\ Cardinality({ c \in ConnIds : mic[c] = "live" }) <= 1
  /\ status = "disconnected" => \A c \in ConnIds : mic[c] # "live"

\* C8: connect() is never invoked while the status is connecting or connected.
C8_NoConnectWhileActive ==
  [][(\E c \in ConnIds : cpc[c] = "idle" /\ cpc'[c] # "idle")
       => status \notin {"connecting", "connected"}]_vars

\* C9: when connect() c fails, the microphone stream and the peer connection it
\* acquired are released, and after the failure none is held.
C9_FailedConnectReleases ==
  [][\A c \in ConnIds : (cpc[c] # "failed" /\ cpc'[c] = "failed") =>
        /\ mic'[c] # "live"
        /\ pcs'[c] # "open"
        /\ micStreamRef' = NULL
        /\ pcRef' = NULL]_vars

\* C10: disconnect() is idempotent: in every state the first call ends with
\* status disconnected, no error and no data channel, microphone stream or
\* peer connection held, and a second call changes nothing and releases nothing.
C10_DisconnectIdempotent ==
  LET s1 == disconnect(Hook)
  IN /\ s1.status = "disconnected" /\ s1.error = "none"
     /\ s1.dcRef = NULL /\ s1.micStreamRef = NULL /\ s1.pcRef = NULL
     /\ disconnect(s1) = s1
     /\ Releases(s1) = {}

\* C10 witness: the toggle has called disconnect() on a connected session, so
\* the first call released a channel, a stream and a peer connection.
C10_Witness ==
  /\ status = "disconnected" /\ ~isActive
  /\ dcRef = NULL /\ micStreamRef = NULL /\ pcRef = NULL
  /\ \E c \in ConnIds :
       /\ mic[c] = "stopped" /\ pcs[c] = "closed" /\ dcs[c] = "closing"
       /\ Len(out[c]) > 0

\* C11: if disconnect() is called while a connect() invocation is suspended at
\* one of its awaits, then in the state where that invocation has run to its
\* end the hook holds no microphone stream, no peer connection and no data
\* channel, and the status is not connected.
C11_AbortedConnectHoldsNothing ==
  [][\A c \in interrupted :
       (c \in Suspended /\ cpc'[c] \in {"ok", "failed"})
         => /\ micStreamRef' = NULL
            /\ pcRef' = NULL
            /\ dcRef' = NULL
            /\ status' # "connected"]_vars

RECURSIVE SumTo(_, _)
SumTo(f, n) == IF n = 0 THEN 0 ELSE f[n] + SumTo(f, n - 1)

\* The calls of sendEventRef.current the handlers have made so far.
SendCalls == SumTo([h \in EvIds |-> SumTo(sends[h], MaxItems)], MaxEvents)

\* C12: a call of send transmits its event if and only if dcRef holds a data
\* channel and that channel is open; otherwise nothing is transmitted; in
\* both cases the status, the error, the held resources and the transcript
\* are left as they were.
C12_SendOnlyWhenOpen ==
  [][SendCalls' # SendCalls =>
       /\ IF dcRef # NULL /\ dcs[dcRef] = "open"
            THEN /\ Len(out'[dcRef]) = Len(out[dcRef]) + (SendCalls' - SendCalls)
                 /\ SubSeq(out'[dcRef], 1, Len(out[dcRef])) = out[dcRef]
                 /\ \A c \in ConnIds \ {dcRef} : out'[c] = out[c]
            ELSE out' = out
       /\ hookVars' = hookVars
       /\ transcripts' = transcripts]_vars

\* Two replies were passed to send, the first on the open channel, the second
\* after the channel had closed: only the first was transmitted.
C12_Witness ==
  \E h \in ToolEvIds :
    /\ hpc[h] = "done"
    /\ sends[h][1] = 2 /\ sends[h][2] = 2
    /\ dcs[1] = "closed"
    /\ Len(out[1]) = 3
    /\ transcripts # <<>>

\* A step that leaves the session, the transcript, the outbound messages and
\* the tool dispatch as they were.
SessionUntouched ==
  /\ hookVars' = hookVars
  /\ isActive' = isActive
  /\ transcripts' = transcripts
  /\ out' = out
  /\ handlerVars' = handlerVars

\* C13: an inbound message that JSON.parse rejects is dropped: the step that
\* delivers it changes neither the transcript nor the status nor the outbound
\* messages, starts no tool and leaves the channel open, so that later
\* messages are delivered and processed as before.
C13_UnparsableDropped ==
  [][(nIn' # nIn /\ ~lastIn'.json) => SessionUntouched]_vars

\* Three messages arrived: a transcription, unparsable data, a transcription;
\* the first and the third are in the transcript.
C13_Witness ==
  /\ nIn = 3
  /\ parseErrors = 1
  /\ Len(transcripts) = 2
  /\ transcripts[1].timestamp = 1
  /\ transcripts[2].timestamp = 3

\* C14: a well-formed inbound message whose type has no case in handleEvent
\* changes nothing: transcript, status and outbound messages stay as they
\* were, no tool is started and nothing is reported.
C14_UnrecognizedIgnored ==
  [][(nIn' # nIn /\ lastIn'.json /\ lastIn'.type \notin RecognizedTypes)
       => SessionUntouched /\ parseErrors' = parseErrors]_vars

\* An event of an unknown type that carries a transcript string arrived on a
\* connected session whose transcript is not empty.
C14_Witness ==
  /\ lastIn.json
  /\ lastIn.type \notin RecognizedTypes
  /\ lastIn.transcript = "hi"
  /\ nIn >= 2
  /\ transcripts # <<>>
  /\ status = "connected"

\* The step is the start of a connect() invocation.
ConnectStarts == \E c \in ConnIds : cpc[c] = "idle" /\ cpc'[c] # "idle"

\* The delivered message is a transcription whose text is not blank.
IsTranscription(raw) ==
  /\ raw.json
  /\ raw.type \in {InputTranscribed, OutputTranscribed}
  /\ raw.transcript \notin {"", " "}

\* C15: during a session the transcript is append-only and in arrival order:
\* a step that does not start a connect() keeps the entries it finds as an
\* unchanged prefix and appends at most one entry; the delivery of a
\* transcription with non-blank text appends exactly one entry at the end,
\* with the role of the event, the trimmed text and the arrival time; every
\* other step leaves the transcript as it was.
C15_TranscriptAppendOnly ==
  [][~ConnectStarts =>
       IF nIn' # nIn /\ IsTranscription(lastIn')
         THEN transcripts' =
                transcripts \o
                  << [role |-> IF lastIn'.type = InputTranscribed
                                 THEN "user" ELSE "assistant",
                      text |-> "hi",
                      timestamp |-> nIn'] >>
         ELSE transcripts' = transcripts]_vars

\* Three transcriptions with the same text arrived, from the user, the
\* assistant and the user again: three entries, in that order.
C15_Witness ==
  /\ Len(transcripts) = 3
  /\ transcripts[1].role = "user" /\ transcripts[1].timestamp = 1
  /\ transcripts[2].role = "assistant" /\ transcripts[2].timestamp = 2
  /\ transcripts[3].role = "user" /\ transcripts[3].timestamp = 3
  /\ \A i \in 1..3 : transcripts[i].text = "hi"

\* The connect() invocation that started last: the session in progress.
LatestSession ==
  IF \A c \in ConnIds : cpc[c] = "idle" THEN NULL
  ELSE CHOOSE c \in ConnIds :
         /\ cpc[c] # "idle"
         /\ \A b \in ConnIds : cpc[b] # "idle" => b <= c

\* C16: the transcript is empty when a new session starts: every start of a
\* connect() invocation leaves the transcript empty, and the entries appended
\* after it come from the session that started last, so that no entry of an
\* earlier session is present in a later one.
C16_TranscriptClearedOnConnect ==
  [][/\ ConnectStarts => transcripts' = <<>>
     /\ (nIn' # nIn /\ transcripts' # transcripts) => lastChan' = LatestSession]_vars

\* The w-th waitForStableMap resolves in this step.
StableResolves(w) ==
  stableWait[w].state # "resolved" /\ stableWait'[w].state = "resolved"

\* A moveend or idle notification is delivered in this step.
Notified == map'.events # map.events

\* C17: waitForStableMap resolves only where the view is not moving and its
\* content is loaded: in every step in which a wait resolves, isMoving() is
\* false and loaded() is true, before the step and after it.
C17_StableResolvesOnlyWhenStable ==
  [][\A w \in WaitIds :
       StableResolves(w) => /\ ~map.moving /\ map.loaded
                            /\ ~map'.moving /\ map'.loaded]_vars

\* A wait that was called on a moving, loading map has resolved on a
\* notification; the map is stable.
C17_Witness ==
  /\ stableWait[1].state = "resolved"
  /\ stableWait[1].done
  /\ map.events >= 2
  /\ ~map.moving /\ map.loaded

\* C18: if waitForStableMap is pending and a moveend or an idle notification
\* is delivered while the view is not moving and is loaded, the wait resolves
\* in that delivery: no further notification is needed.
C18_ResolvesAtNextNotification ==
  [][\A w \in WaitIds :
       (stableWait[w].state = "pending" /\ Notified /\ StableNow(map))
         => stableWait'[w].state = "resolved"]_vars

\* A pending wait has resolved on an idle notification, after a moveend
\* notification that found the map unstable.
C18_Witness ==
  /\ stableWait[1].state = "resolved"
  /\ stableWait[1].done
  /\ map.last = "idle"
  /\ map.events = 2
  /\ stableWait[2].state = "pending"

\* C19: when waitForStableMap has resolved, neither of its two listeners is
\* still registered, and no later step changes anything of the resolved
\* wait: a later notification runs none of its code.
C19_NoDanglingListener ==
  /\ [](\A w \in WaitIds :
          stableWait[w].state = "resolved"
            => /\ TryResolveOf(w) \notin listeners.moveend
               /\ TryResolveOf(w) \notin listeners.idle)
  /\ [][\A w \in WaitIds :
          stableWait[w].state = "resolved" => stableWait'[w] = stableWait[w]]_vars

\* A wait that had subscribed has resolved and notifications were delivered
\* after it, while another wait is still subscribed.
C19_Witness ==
  /\ stableWait[1].state = "resolved"
  /\ stableWait[1].done
  /\ stableWait[1].resolves = 1
  /\ map.events = MaxNotifications
  /\ TryResolveOf(2) \in listeners.moveend \cap listeners.idle

\* A moveend notification is delivered in this step.
MoveEndDelivered == Notified /\ map'.last = "moveend"

\* The timeout of the w-th waitForMoveEnd expires in this step.
TimerFires(w) == moveWait[w].timer = "armed" /\ moveWait'[w].timer = "fired"

\* C20: waitForMoveEnd resolves exactly once, at the earlier of the first
\* moveend notification and the expiry of its timeout: a pending wait
\* resolves in the step that delivers a moveend or fires its timer and in no
\* other step, resolve is called once, a resolved wait is changed by nothing
\* but the expiry of its timer, which leaves it resolved, and every pending
\* wait does resolve.
C20_MoveEndResolvesOnce ==
  /\ [][\A w \in WaitIds :
          /\ moveWait'[w].resolves <= 1
          /\ (moveWait[w].state = "pending" /\ (MoveEndDelivered \/ TimerFires(w)))
               => moveWait'[w].state = "resolved" /\ moveWait'[w].resolves = 1
          /\ (moveWait[w].state # "resolved" /\ moveWait'[w].state = "resolved")
               => /\ moveWait[w].state = "pending"
                  /\ MoveEndDelivered \/ TimerFires(w)
          /\ moveWait[w].state = "resolved"
               => /\ moveWait'[w].state = "resolved"
                  /\ moveWait'[w].resolves = moveWait[w].resolves]_vars
  /\ \A w \in WaitIds :
       (moveWait[w].state = "pending") ~> (moveWait[w].state = "resolved")

\* The first wait resolved on a moveend and its timer is still to expire; the
\* second resolved and its timer has expired; each resolved once.
C20_Witness ==
  /\ moveWait[1].state = "resolved" /\ moveWait[1].timer = "armed"
  /\ moveWait[1].resolves = 1
  /\ moveWait[2].state = "resolved" /\ moveWait[2].timer = "fired"
  /\ moveWait[2].resolves = 1
  /\ map.last = "moveend"

\* The call that returned last was zoom_map with this action.
ZoomReturned(act) == ret.call.name = "zoom_map" /\ ret.call.action = act

\* C22: whatever the current zoom and the steps argument, the level zoom_map
\* passes to map.zoomTo for zoom_in and zoom_out lies within 1..20; with no
\* steps argument the step is 2: zoom_in from 16 requests 18, from 19 it
\* requests 20.
C22_ZoomStepWithinRange ==
  (ZoomReturned("zoom_in") \/ ZoomReturned("zoom_out"))
    => /\ ret.request.present
       /\ ret.request.value >= 1 /\ ret.request.value <= 20
       /\ (ZoomReturned("zoom_in") /\ ~ret.call.steps.present)
            => /\ ret.from = 16 => ret.request.value = 18
               /\ ret.from = 19 => ret.request.value = 20
               /\ ret.request.value = Min(ret.from + 2, 20)

LocateWaiting == tool.pc \in {"raf", "moveend", "stable"}

\* The notifications or the views of the run are used up.
BudgetSpent == map.events = MaxNotifications \/ camera.view = MaxViews

\* C21: after a successful geocode locate_place always returns its result
\* string, also when the map never fires moveend for the camera transition
\* it started: whenever the tool is past the geocode it does return (unless
\* the run has used up its notifications or views).
C21_LocateTerminates == LocateWaiting ~> (~LocateWaiting \/ BudgetSpent)

\* A handleToolCall of this tool returns in this step.
Returns(name) == ret'.n # ret.n /\ ret'.call.name = name

\* C24: when the segmentation returns no feature, or fails, extract_objects
\* returns a failure string, does not call onObjectsDetected and leaves the
\* collection as it was; when it returns n > 0 features, onObjectsDetected
\* is called once, with n objects, which are added to the collection, and
\* the result string carries n.
C24_ExtractReportsFeatures ==
  [][(Returns("extract_objects") /\ ret'.call.arg) =>
       IF ret'.features.present /\ ret'.features.value > 0
         THEN /\ ret'.detected = 1
              /\ ret'.added = ret'.features.value
              /\ objects'.state = objects.state + ret'.features.value
              /\ ret'.result = "extracted"
              /\ ret'.count = ret'.features.value
         ELSE /\ ret'.detected = 0
              /\ objects' = objects
              /\ ret'.result = "segmentation_failed"]_vars

\* A first extract_objects found two objects; the second got no feature
\* from the segmentation and left the two in place.
C24_Witness ==
  /\ ret.n = 2
  /\ ret.call.name = "extract_objects"
  /\ ret.features = Arg(TRUE, 0)
  /\ ret.result = "segmentation_failed"
  /\ ret.detected = 0
  /\ objects.state = 2

\* The call that returned last was export_data.
Exported == ret.call.name = "export_data"

\* C25: export_data called while no object is tracked returns the failure
\* string and does not call the export collaborator; called while k > 0
\* objects are tracked it calls the export collaborator once and returns
\* the confirmation with the count k.
C25_ExportWhenTracked ==
  Exported =>
    IF ret.tracked = 0
      THEN ret.exported = 0 /\ ret.result = "nothing_to_export"
      ELSE ret.exported = 1 /\ ret.result = "exporting" /\ ret.count = ret.tracked

\* C26: export_data works on the collection as it is when it is called,
\* after whatever the user has added or deleted since the session began:
\* it finds the collection empty exactly when it is empty, and the count it
\* reports is the number of objects in it.
C26_ExportReadsCurrent ==
  Exported =>
    /\ (ret.result = "nothing_to_export") <=> (ret.tracked = 0)
    /\ ret.result = "exporting" => ret.count = ret.tracked

\* C29: extract_objects called after zoom_map captures the view only when
\* the camera transition zoom_map started has ended: in the step that
\* renders the canvas no transition is in progress, the map is not moving,
\* and the camera is at the level zoom_map asked for.
C29_CaptureAfterZoom ==
  [][(tool.pc = "xstable" /\ tool'.pc = "fetch") =>
       /\ camera.ease = "none"
       /\ ~map.moving
       /\ (ret.call.name = "zoom_map" /\ ret.request.present)
            => camera.zoom = ret.request.value]_vars

\* zoom_in from 16 and then extract_objects: the image shows the view the
\* transition ended in, at zoom 18.
C29_Witness ==
  /\ ret.n = 2
  /\ ret.call.name = "extract_objects"
  /\ ret.result = "extracted"
  /\ ret.ease = "none"
  /\ ret.image = 2
  /\ camera.zoom = 18
  /\ camera.ease = "none"

\* C30: the image and the bounds extract_objects sends to the segmentation
\* are taken from the same view: the view that buildCaptureBounds reads is
\* the view canvas.toDataURL rendered.
C30_ImageMatchesBounds ==
  tool.pc = "segment" => tool.image = tool.bounds

\* The session that delivered event h has been disconnected: its channel
\* is not the one the hook holds any more.
Disconnected(h) == evChan[h] # NULL /\ dcRef # evChan[h]

\* C27: a tool handler in flight when its session is disconnected runs to
\* its end, and the send of its result transmits nothing on any data
\* channel, also when a new session has been connected in the meantime.
C27_LateReplyNotSent ==
  [][\A h \in ToolEvIds :
       (hpc[h] = "await" /\ hpc'[h] # "await" /\ Disconnected(h)) => out' = out]_vars

\* The function_call_output sent for invocation i of event h reports a
\* failure.
Failed(h, i) ==
  \E c \in ConnIds : \E k \in 1..Len(out[c]) :
    /\ out[c][k].type = "conversation.item.create"
    /\ out[c][k].call = <<h, i>>
    /\ out[c][k].output = "error"

\* C28: a tool invocation that fails leaves the connection status and the
\* resources the session holds as they were, and the invocations that
\* follow it in the event are executed and answered all the same.
C28_FailureKeepsSession ==
  /\ [](\A h \in EvIds : HandledOnOpenChannel(h) =>
          \A j, i \in Calls(h) : (j < i /\ Failed(h, j)) =>
            \E k \in 1..Len(out[dcRef]) :
              out[dcRef][k].type = "conversation.item.create" /\ out[dcRef][k].call = <<h, i>>)
  /\ [][(\E h \in EvIds : sends'[h] # sends[h])
          => UNCHANGED <<status, error, pcRef, dcRef, micStreamRef, mic, pcs, dcs>>]_vars

\* C31: locate_place returns its confirmation string only when the camera
\* transition it started has ended and the view is stable: in the step
\* that returns "located" no transition is in progress, the camera is at
\* the target of the last transition, and the map is not moving and loaded.
C31_LocateReturnsSettled ==
  [][(Returns("locate_place") /\ ret'.result = "located") =>
       /\ camera.ease = "none"
       /\ camera.zoom = camera.target
       /\ StableNow(map)]_vars

\* locate_place has returned its confirmation after the flyTo it started
\* has brought the camera to zoom 14; the timer of a moveend wait has
\* expired on the way.
C31_Witness ==
  /\ ret.call.name = "locate_place"
  /\ ret.result = "located"
  /\ camera.zoom = FlyZoom
  /\ camera.ease = "none"
  /\ \E w \in WaitIds : moveWait[w].timer = "fired"

\* The k-th point-click extraction has started and has not ended.
InFlight(k) == clicks[k].pc \in {"stable", "fetch", "blob", "image", "import", "segment"}

\* C32: the active set of add-object requests holds exactly the requests
\* whose extraction is in flight: a request is removed when its operation
\* ends, on every exit path, so with no extraction in flight the set is
\* empty, whatever the order in which overlapping extractions finish.
C32_RequestsAreInFlight ==
  loadingState.addObjectRequests = { k \in ClickIds : InFlight(k) }

\* Two extractions overlapped and the second click has ended first, by an
\* exception: only the first request is left in the set.
C32_Witness ==
  /\ clicks[1].pc = "segment"
  /\ clicks[2].pc = "failed"
  /\ loadingState.addObjectRequests = {1}

\* The objects a step surfaces: by a returning extract_objects, by point
\* clicks that end with a feature, by the panel's segmentation.
VoiceAdds == IF Returns("extract_objects") THEN ret'.added ELSE 0
ClickAdds ==
  Cardinality({ k \in ClickIds : clicks[k].pc # "added" /\ clicks'[k].pc = "added" })
PanelAdds == IF panel.pc = "segment" /\ panel'.pc = "none" THEN panel'.added ELSE 0

\* C39: no update of the detected-objects collection is lost: whatever the
\* interleaving of voice extractions, panel segmentations and point
\* clicks, each step adds to the collection as it is exactly the objects
\* the step surfaces, so the collection holds every object surfaced.
C39_NoLostObjects ==
  [][objects'.state = objects.state + VoiceAdds + ClickAdds + PanelAdds]_vars

\* A point click and the panel have each added an object while an
\* extract_objects that started before them is waiting for its
\* segmentation.
C39_Witness ==
  /\ tool.pc = "segment"
  /\ clicks[1].pc = "added"
  /\ panel.added = 1
  /\ objects.state = 2

\* An extract_objects is between its start and its complete notification;
\* a text segmentation of the panel is.
VoiceSegmenting == tool.pc \in {"xstable", "fetch", "blob", "segment"}
PanelSegmenting == panel.pc # "none"

\* C40: every onTextSegmentationStart of extract_objects is followed by
\* exactly one onTextSegmentationComplete, on every exit path, and the
\* textSegmentation flag is true whenever a text segmentation (voice or
\* panel) is in flight.
C40_SegmentingFlag ==
  /\ notes.starts = notes.completes + (IF VoiceSegmenting THEN 1 ELSE 0)
  /\ (VoiceSegmenting \/ PanelSegmenting) => loadingState.textSegmentation

\* In hook state x the data channel, the microphone, the peer connection
\* that hook state s held has been released.
DcReleased(s, x) ==
  x.dcRef = NULL /\ (s.dcRef # NULL => x.dcs[s.dcRef] \notin {"connecting", "open"})
MicReleased(s, x) ==
  x.micStreamRef = NULL /\ (s.micStreamRef # NULL => x.mic[s.micStreamRef] = "stopped")
PcReleased(s, x) ==
  x.pcRef = NULL /\ (s.pcRef # NULL => x.pcs[s.pcRef] = "closed")

\* C33: disconnect() releases in a fixed order: first the data channel is
\* closed, with the microphone and the peer connection still held, then
\* the microphone tracks are stopped, with the peer connection still held,
\* then the peer connection is closed, and only then the status is set to
\* disconnected; the hook is left in the last of these states.
C33_DisconnectOrder ==
  [][(isActive /\ ~isActive') =>
       LET s == Hook
           t == disconnectSteps(s)
       IN /\ DcReleased(s, t[2])
          /\ s.micStreamRef # NULL => ~MicReleased(s, t[2])
          /\ s.pcRef # NULL => ~PcReleased(s, t[2])
          /\ DcReleased(s, t[3]) /\ MicReleased(s, t[3])
          /\ s.pcRef # NULL => ~PcReleased(s, t[3])
          /\ DcReleased(s, t[4]) /\ MicReleased(s, t[4]) /\ PcReleased(s, t[4])
          /\ \A i \in 2..4 : t[i].status = s.status
          /\ t[5].status = "disconnected"
          /\ Hook' = t[5]]_vars

\* disconnect() has run on a connected session that held all three: its
\* channel is closing, its microphone stopped, its peer connection closed.
C33_Witness ==
  /\ status = "disconnected"
  /\ ~isActive
  /\ \E c \in ConnIds :
       /\ cpc[c] = "ok"
       /\ dcs[c] = "closing"
       /\ mic[c] = "stopped"
       /\ pcs[c] = "closed"
       /\ Len(out[c]) > 0

\* The latest connect() has failed and left the status at error.
FailedConnect ==
  /\ status = "error"
  /\ \E c \in ConnIds : cpc[c] = "failed" /\ \A b \in ConnIds : b > c => cpc[b] = "idle"

\* handleToggle runs in this step, by its disconnect branch or by its
\* connect branch.
ToggleStep == (isActive /\ ~isActive') \/ ConnectStarts

\* C34: after a connect() that failed, the next toggle of the user invokes
\* connect() again: it is not turned into a disconnect by the active flag
\* of the controller.
C34_RetryAfterFailure ==
  [][(FailedConnect /\ ToggleStep) => ConnectStarts]_vars

\* C35: extract_objects translates the category through the table: for an
\* object_type that is a key of OBJECT_TYPE_MAP the prompt sent to the
\* segmentation is the value of the table, and for every other non-empty
\* object_type it is the object_type itself.
C35_PromptFromTable ==
  /\ \A k \in DOMAIN OBJECT_TYPE_MAP : englishPrompt(k) = OBJECT_TYPE_MAP[k]
  /\ (tool.pc = "segment" /\ Head(tool.queue).object_type # "") =>
       LET t == Head(tool.queue).object_type
       IN tool.prompt = IF t \in DOMAIN OBJECT_TYPE_MAP THEN OBJECT_TYPE_MAP[t] ELSE t

\* The close event of channel c is delivered in this step.
CloseDelivered(c) == dcs[c] = "closing" /\ dcs'[c] = "closed"

\* C36: the close notification of a data channel that has been released
\* never changes the status of a later session: delivered for a channel
\* whose connect() had completed (so that disconnect() closed it) while
\* another session is connecting or connected, it leaves the status as it is.
C36_LateCloseKeepsStatus ==
  [][\A c \in ConnIds :
       (CloseDelivered(c) /\ cpc[c] = "ok" /\ pcRef # c
          /\ status \in {"connecting", "connected"})
         => status' = status]_vars

\* The messages on any channel that belong to invocation i of event h.
Transmitted(h, i) ==
  { <<c, k>> \in ConnIds \X (1..(2 * MaxItems * MaxEvents + 1)) :
      k <= Len(out[c]) /\ out[c][k].call = <<h, i>> }

\* C37: the two messages of a tool result are transmitted together or not
\* at all: on every channel each function_call_output is directly followed
\* by the response.create of the same invocation, whatever disconnects and
\* channel closes take place.
C37_ReplyWholeOrAbsent ==
  \A c \in ConnIds : \A k \in 1..Len(out[c]) :
    out[c][k].type = "conversation.item.create" =>
      /\ k < Len(out[c])
      /\ out[c][k + 1].type = "response.create"
      /\ out[c][k + 1].call = out[c][k].call

\* C37 witness: both cases in one run: the reply of an event's first
\* invocation is on a channel in full, the channel has since been released,
\* and the reply of the second invocation, sent after that, is on no channel.
C37_Witness ==
  \E h \in EvIds, c \in ConnIds :
    /\ sends[h][1] = 2 /\ sends[h][2] = 2
    /\ dcs[c] \in {"closing", "closed"}
    /\ \E k \in 1..Len(out[c]) :
         out[c][k].type = "conversation.item.create" /\ out[c][k].call = <<h, 1>>
    /\ Transmitted(h, 2) = {}

\* The first message on channel c is the session configuration.
ConfiguredFirst(c) == out[c] # <<>> => out[c][1].type = "session.update"

\* C38: on every data channel session.update is the first outbound message,
\* so no function_call_output or response.create precedes it, and the
\* status becomes connected only in a step that has sent session.update
\* as the first message of the channel that opens.
C38_SessionUpdateFirst ==
  /\ [](\A c \in ConnIds : ConfiguredFirst(c))
  /\ [][(status # "connected" /\ status' = "connected") =>
          \E c \in ConnIds :
            /\ dcs[c] # "open" /\ dcs'[c] = "open"
            /\ out[c] = <<>> /\ Len(out'[c]) = 1
            /\ out'[c][1].type = "session.update"]_vars

\* C38 witness: a channel carries a function result, and its first message
\* is the configuration.
C38_Witness ==
  \E c \in ConnIds :
    /\ Len(out[c]) >= 3
    /\ out[c][1].type = "session.update"
    /\ out[c][2].type = "conversation.item.create"
    /\ out[c][3].type = "response.create"

====
